---- MODULE Spec2Model ----
(***************************************************************************)
(* A model of the ShadowOS AI engine: AIPaymentRouter, FraudDetector and   *)
(* PrivacyAdapter with their bounded per-key histories, the                *)
(* AIReputationLearner, the X402AIBridge that combines the first three,    *)
(* and the ShadowOSIntelligence facade.                                    *)
(*                                                                         *)
(* Number representation.  The TypeScript code computes with IEEE doubles  *)
(* and bigints; the model uses integers in fixed units:                    *)
(*   privacy scores     units of 1/10000                                   *)
(*   success rates      units of 1/300 (exact for k/n with n dividing 300) *)
(*   composite scores   units of 1/300000000                               *)
(*   risk scores, confidences   units of 1/10000                           *)
(*   sensitivities      units of 1/100                                     *)
(*   frequency, amountDeviation   fractions [num, den]                     *)
(* An absent optional argument (undefined) is the empty sequence None and  *)
(* a present one is the one-element sequence Some(v).                      *)
(***************************************************************************)
EXTENDS Integers, Sequences, FiniteSets, TLC

VARIABLES
    routingHistory,  \* AIPaymentRouter.routingHistory : Map<string, PaymentRoute[]>
    routeLog,        \* history variable: every route ever recorded, per chain key
    threatHistory,   \* PrivacyAdapter.threatHistory : Map<string, ThreatLevel[]>
    threatLog,       \* history variable: every threat ever recorded, per pseudonym key
    patterns,        \* FraudDetector.patterns : Map<string, PaymentPattern>
    call,            \* the last completed call: its operation, arguments and result
    weights,         \* ReputationModel.weights : Map<string, number>
    trainingData,    \* AIReputationLearner.trainingData : TrainingData[]
    isTrained,       \* AIReputationLearner.isTrained
    tasks,           \* the asynchronous calls suspended at an await, by slot
    facade           \* ShadowOSIntelligence: its config and its own FraudDetector.patterns

learnerVars == <<weights, trainingData, isTrained>>

vars ==
    <<routingHistory, routeLog, threatHistory, threatLog, patterns, call, learnerVars, tasks,
      facade>>

None == <<>>
Some(v) == <<v>>
IsSome(o) == Len(o) > 0
Get(o) == o[1]

Min(a, b) == IF a <= b THEN a ELSE b
Max(a, b) == IF a >= b THEN a ELSE b
Abs(a) == IF a >= 0 THEN a ELSE 0 - a

EmptyHistory == [k \in {} |-> <<>>]

\* Map.get(key) || [] : the stored array, or an empty one for an absent key.
GetOrEmpty(map, key) == IF key \in DOMAIN map THEN map[key] ELSE <<>>

\* Map.set(key, value)
MapSet(map, key, value) ==
    [k \in (DOMAIN map) \cup {key} |-> IF k = key THEN value ELSE map[k]]

Idle == [op |-> "idle"]

(***************************************************************************)
(* bytesToHex                                                              *)
(***************************************************************************)
HexDigits == <<"0", "1", "2", "3", "4", "5", "6", "7",
               "8", "9", "a", "b", "c", "d", "e", "f">>

\* b.toString(16).padStart(2, '0') for a byte b
byteToHex(b) == <<HexDigits[(b \div 16) + 1], HexDigits[(b % 16) + 1]>>

RECURSIVE bytesToHex(_)
bytesToHex(bytes) ==
    IF bytes = <<>> THEN <<>>
    ELSE byteToHex(Head(bytes)) \o bytesToHex(Tail(bytes))

(***************************************************************************)
(* AIPaymentRouter                                                         *)
(***************************************************************************)
RouteHistoryCapacity == 100

DefaultChains ==
    <<"ethereum", "polygon", "bsc", "arbitrum", "optimism", "avalanche", "solana">>

\* initializeChainMetrics: the keys of chainMetrics and the one record they all hold.
chainMetricsKeys == {DefaultChains[i] : i \in 1..Len(DefaultChains)}
chainMetrics(chain) ==
    [avgGasPrice |-> 20, avgConfirmationBlocks |-> 12, networkHealth |-> 95]

\* Math.floor(Number(base) * 1.2) or Math.floor(Number(base) * 1.0)
estimateGas(chain, amount) ==
    LET base == IF chain = "solana" THEN 5000 ELSE 21000
    IN  IF amount > 1000000 THEN (base * 12) \div 10 ELSE base

baseScores(chain) ==
    CASE chain \in {"ethereum", "arbitrum", "optimism"} -> 7
      [] chain \in {"polygon", "avalanche"} -> 6
      [] chain = "bsc" -> 5
      [] chain = "solana" -> 8
      [] OTHER -> 5

levelMultipliers(privacyLevel) ==
    CASE privacyLevel = "low" -> 8
      [] privacyLevel = "medium" -> 10
      [] privacyLevel = "high" -> 12
      [] privacyLevel = "maximum" -> 15
      [] OTHER -> 10

\* The IEEE double product base * multiplier, for base and multiplier given in
\* tenths, in units of 1/10000.  Three of the products are not the exact
\* decimal: 0.6 * 1.5 = 0.8999999999999999, 0.7 * 0.8 = 0.5599999999999999 and
\* 0.8 * 0.8 = 0.6400000000000001; they are kept one unit off the decimal so
\* that every comparison comes out as it does on doubles.
doubleProduct(base, mult) ==
    base * mult * 100
    + (CASE base = 6 /\ mult = 15 -> -1
         [] base = 7 /\ mult = 8 -> -1
         [] base = 8 /\ mult = 8 -> 1
         [] OTHER -> 0)

calculatePrivacyScore(chain, privacyLevel) ==
    Min(10000, doubleProduct(baseScores(chain), levelMultipliers(privacyLevel)))

successDefaults(chain) ==
    CASE chain = "ethereum" -> 285
      [] chain = "polygon" -> 294
      [] chain = "bsc" -> 291
      [] chain \in {"arbitrum", "optimism"} -> 288
      [] chain = "avalanche" -> 291
      [] chain = "solana" -> 297
      [] OTHER -> 285

\* history.filter((r) => r.successRate > 0.9).length
RECURSIVE countSuccessful(_)
countSuccessful(history) ==
    IF history = <<>> THEN 0
    ELSE (IF Head(history).successRate > 270 THEN 1 ELSE 0)
         + countSuccessful(Tail(history))

\* getSuccessRate counting every stored route, whatever its successRate.
getSuccessRateLenient(hist, chain, amount) ==
    LET history == GetOrEmpty(hist, chain)
    IN  IF Len(history) = 0 THEN successDefaults(chain) ELSE 300

getSuccessRate(hist, chain, amount) ==
    LET history == GetOrEmpty(hist, chain)
    IN  IF Len(history) = 0 THEN successDefaults(chain)
        ELSE (300 * countSuccessful(history)) \div Len(history)

blockTimes(chain) ==
    CASE chain = "ethereum" -> 12000
      [] chain \in {"polygon", "optimism", "avalanche"} -> 2000
      [] chain = "bsc" -> 3000
      [] chain = "arbitrum" -> 1000
      [] chain = "solana" -> 400
      [] OTHER -> 2000

estimateTime(chain, metrics) ==
    blockTimes(chain)
    * (IF metrics.avgConfirmationBlocks # 0 THEN metrics.avgConfirmationBlocks ELSE 12)

getPrivacyScore(level) ==
    CASE level = "low" -> 3000
      [] level = "medium" -> 5000
      [] level = "high" -> 7000
      [] level = "maximum" -> 9000
      [] OTHER -> 5000

createDefaultRoute(chain) ==
    [chain |-> chain, estimatedGas |-> 21000, privacyScore |-> 7000,
     successRate |-> 285, estimatedTime |-> 12000]

calculateRoute(hist, chain, options, metrics) ==
    [chain |-> chain,
     estimatedGas |-> estimateGas(chain, options.amount),
     privacyScore |-> calculatePrivacyScore(chain, options.privacyLevel),
     successRate |-> getSuccessRate(hist, chain, options.amount),
     estimatedTime |-> estimateTime(chain, metrics)]

\* The comparator's score of a route:
\*   privacyScore * 0.4 + successRate * 0.4 - (estimatedGas / 1e9) * 0.2.
\* The privacy score enters by its nearest hundredth: the rounding error of a
\* double (1e-16) is far below the smallest gas term (1e-6).
routeScore(r) ==
    ((r.privacyScore + 50) \div 100) * 1200000
    + r.successRate * 400000
    - (IF r.estimatedGas > 0 THEN (r.estimatedGas * 6) \div 100 ELSE 0)

\* The sort with the comparator reversed: ascending by score.
RECURSIVE insertRouteAscending(_, _)
insertRouteAscending(r, sorted) ==
    IF sorted = <<>> THEN <<r>>
    ELSE IF routeScore(Head(sorted)) <= routeScore(r)
         THEN <<Head(sorted)>> \o insertRouteAscending(r, Tail(sorted))
         ELSE <<r>> \o sorted

\* Array.prototype.sort with the comparator scoreB - scoreA: stable, descending.
RECURSIVE insertRoute(_, _)
insertRoute(r, sorted) ==
    IF sorted = <<>> THEN <<r>>
    ELSE IF routeScore(Head(sorted)) >= routeScore(r)
         THEN <<Head(sorted)>> \o insertRoute(r, Tail(sorted))
         ELSE <<r>> \o sorted

RECURSIVE sortRoutes(_)
sortRoutes(routes) ==
    IF routes = <<>> THEN <<>>
    ELSE insertRoute(routes[Len(routes)], sortRoutes(SubSeq(routes, 1, Len(routes) - 1)))

\* options.preferredChains || [the seven chains]  (an empty array is truthy)
availableChains(options) ==
    IF IsSome(options.preferredChains) THEN Get(options.preferredChains)
    ELSE DefaultChains

\* The loop of findOptimalRoute: a route per chain that has metrics, in order.
RECURSIVE analyzeChains(_, _, _)
analyzeChains(hist, chains, options) ==
    IF chains = <<>> THEN <<>>
    ELSE IF Head(chains) \notin chainMetricsKeys
         THEN analyzeChains(hist, Tail(chains), options)
         ELSE <<calculateRoute(hist, Head(chains), options, chainMetrics(Head(chains)))>>
              \o analyzeChains(hist, Tail(chains), options)

sortedRoutes(hist, options) == sortRoutes(analyzeChains(hist, availableChains(options), options))

filteredRoutes(hist, options) ==
    LET minPrivacyScore == getPrivacyScore(options.privacyLevel)
    IN  SelectSeq(sortedRoutes(hist, options), LAMBDA r : r.privacyScore >= minPrivacyScore)

\* options.maxGasPrice ? filteredRoutes.filter(...) : filteredRoutes
\* (undefined and 0n are both falsy)
finalRoutes(hist, options) ==
    IF IsSome(options.maxGasPrice) /\ Get(options.maxGasPrice) # 0
    THEN SelectSeq(filteredRoutes(hist, options),
                   LAMBDA r : r.estimatedGas <= Get(options.maxGasPrice))
    ELSE filteredRoutes(hist, options)

\* options.targetChain || "ethereum"
targetOrEthereum(options) ==
    IF IsSome(options.targetChain) THEN Get(options.targetChain) ELSE "ethereum"

\* findOptimalRoute placing the target chain's route first when it has one.
findOptimalRouteTargeted(hist, options) ==
    LET onTarget == SelectSeq(sortedRoutes(hist, options),
                              LAMBDA r : r.chain = targetOrEthereum(options))
    IN  IF IsSome(options.targetChain) /\ onTarget # <<>> THEN Head(onTarget)
        ELSE IF finalRoutes(hist, options) # <<>> THEN Head(finalRoutes(hist, options))
        ELSE IF sortedRoutes(hist, options) # <<>> THEN Head(sortedRoutes(hist, options))
        ELSE createDefaultRoute(targetOrEthereum(options))

findOptimalRoute(hist, options) ==
    IF finalRoutes(hist, options) # <<>> THEN Head(finalRoutes(hist, options))
    ELSE IF sortedRoutes(hist, options) # <<>> THEN Head(sortedRoutes(hist, options))
    ELSE createDefaultRoute(targetOrEthereum(options))

\* updateHistory with pop() where the code has shift(): a full array loses its
\* newest element.
updateHistoryPop(hist, chain, route) ==
    LET pushed == Append(GetOrEmpty(hist, chain), route)
    IN  MapSet(hist, chain,
               IF Len(pushed) > RouteHistoryCapacity
               THEN SubSeq(pushed, 1, Len(pushed) - 1) ELSE pushed)

\* updateHistory storing a map that holds the recorded chain alone.
updateHistoryAlone(hist, chain, route) ==
    LET pushed == Append(GetOrEmpty(hist, chain), route)
    IN  MapSet(EmptyHistory, chain,
               IF Len(pushed) > RouteHistoryCapacity THEN Tail(pushed) ELSE pushed)

\* updateHistory: push, then shift once if the array is longer than 100.
updateHistory(hist, chain, route) ==
    LET pushed == Append(GetOrEmpty(hist, chain), route)
    IN  MapSet(hist, chain,
               IF Len(pushed) > RouteHistoryCapacity THEN Tail(pushed) ELSE pushed)

(***************************************************************************)
(* FraudDetector                                                           *)
(*                                                                         *)
(* A PaymentData is [pseudonym, amount, timestamp, chain, commitment].  A  *)
(* commitment is 32 equal bytes and is written as that byte.  A stored     *)
(* PaymentPattern is [pseudonym, payments, frequency, avgAmount, chains];  *)
(* its lastUpdated stamp (Date.now(), never read) is left out.             *)
(***************************************************************************)

\* The first five bytes of sha256 of 32 bytes all equal to fill.
sha256(fill) ==
    CASE fill = 0 -> <<102, 104, 122, 173, 248>>
      [] fill = 2 -> <<117, 135, 123, 180, 29>>
      [] fill = 4 -> <<159, 79, 182, 143, 62>>
      [] fill = 7 -> <<75, 176, 111, 142, 78>>
      [] fill = 8 -> <<37, 120, 204, 248, 100>>
      [] fill = 10 -> <<185, 176, 125, 212, 231>>
      [] fill = 124 -> <<216, 249, 41, 253, 129>>

\* hash[offset % hash.length] % max   (offsets 0..4 of a 32-byte hash)
hashToCategory(hash, offset, max) == hash[offset + 1] % max

\* (hash[offset % hash.length] / 255) * max, as the fraction num/den
hashToNumber(hash, offset, max) == [num |-> hash[offset + 1] * max, den |-> 255]

\* A fraction a/b against the decimal p/q; den = 0 is NaN, which compares false.
FracGreater(f, p, q) == f.den > 0 /\ f.num * q > p * f.den

extractPrivateFeatures(payment) ==
    LET hash == sha256(payment.commitment)
    IN  [amountCategory |-> hashToCategory(hash, 0, 5),
         timePattern |-> hashToCategory(hash, 1, 4),
         chainPattern |-> hashToCategory(hash, 2, 7),
         frequency |-> [num |-> hashToNumber(hash, 3, 100).num,
                        den |-> hashToNumber(hash, 3, 100).den * 100],
         amountDeviation |-> [num |-> hashToNumber(hash, 4, 50).num,
                              den |-> hashToNumber(hash, 4, 50).den * 100]]

\* categorizeAmount with a sixth category for amounts of 1000000 and more.
categorizeAmountSix(amount) ==
    IF amount < 1000 THEN 0
    ELSE IF amount < 10000 THEN 1
    ELSE IF amount < 100000 THEN 2
    ELSE IF amount < 1000000 THEN 3
    ELSE 5

categorizeAmount(amount) ==
    IF amount < 1000 THEN 0
    ELSE IF amount < 10000 THEN 1
    ELSE IF amount < 100000 THEN 2
    ELSE IF amount < 1000000 THEN 3
    ELSE 4

RECURSIVE SumSeq(_)
SumSeq(s) == IF s = <<>> THEN 0 ELSE Head(s) + SumSeq(Tail(s))

\* The intervals between consecutive payments of a pattern.
intervalsOf(payments) ==
    [i \in 1..(Len(payments) - 1) |-> payments[i + 1].timestamp - payments[i].timestamp]

\* variance < (avgInterval * 0.3)^2 for n intervals of sum S, cleared of
\* denominators: 100 * sum (n*d - S)^2 < 9 * n * S^2.
lowVariance(intervals) ==
    LET n == Len(intervals)
        S == SumSeq(intervals)
        dev == [i \in 1..n |-> (n * intervals[i] - S) * (n * intervals[i] - S)]
    IN  100 * SumSeq(dev) < 9 * n * S * S

analyzeTimePattern(pattern, timestamp) ==
    IF Len(pattern.payments) < 2 THEN 0
    ELSE IF lowVariance(intervalsOf(pattern.payments)) THEN 1 ELSE 0

\* analyzeChainPattern reading the size before the chain is added.
analyzeChainPatternBefore(pattern, chain) == Cardinality(pattern.chains)

\* pattern.chains.add(chain); return pattern.chains.size   (the returned size)
analyzeChainPattern(pattern, chain) == Cardinality(pattern.chains \cup {chain})

\* pattern.chains.add(chain)   (the pattern as analyzeChainPattern leaves it)
chainsAdded(pattern, chain) == [pattern EXCEPT !.chains = @ \cup {chain}]

\* Math.min(1.0, |amount - avg| / avg) with avg = A/m; x/0 is Infinity and
\* 0/0 is NaN (Math.min(1.0, NaN) is NaN).
calculateDeviation(pattern, amount) ==
    LET m == Len(pattern.payments)
        A == SumSeq([i \in 1..m |-> pattern.payments[i].amount])
        d == Abs(m * amount - A)
    IN  IF A = 0 THEN (IF d = 0 THEN [num |-> 0, den |-> 0] ELSE [num |-> 1, den |-> 1])
        ELSE IF d >= Abs(A) /\ A > 0 THEN [num |-> 1, den |-> 1]
        ELSE IF A > 0 THEN [num |-> d, den |-> A]
        ELSE [num |-> 0 - d, den |-> 0 - A]

\* this.patterns.get(this.bytesToHex(payment.pseudonym)) is undefined
noPattern(pats, payment) == bytesToHex(payment.pseudonym) \notin DOMAIN pats

\* extractDirectFeatures when a pattern is stored for the pseudonym.
extractDirectFeatures(pats, payment) ==
    LET pattern == pats[bytesToHex(payment.pseudonym)]
    IN  [amountCategory |-> categorizeAmount(payment.amount),
         timePattern |-> analyzeTimePattern(pattern, payment.timestamp),
         chainPattern |-> analyzeChainPattern(pattern, payment.chain),
         frequency |-> [num |-> pattern.frequency, den |-> 10],
         amountDeviation |-> calculateDeviation(pattern, payment.amount)]

\* extractFeatures raises a TypeError (pattern.chains of undefined, in
\* analyzeChainPattern) in direct mode when no pattern is stored.
extractionThrows(pats, payment, preservePrivacy) ==
    ~preservePrivacy /\ noPattern(pats, payment)

\* extractFeatures reading the plaintext history whenever the pseudonym has one.
extractFeaturesKnownDirect(pats, payment, preservePrivacy) ==
    IF preservePrivacy /\ noPattern(pats, payment) THEN extractPrivateFeatures(payment)
    ELSE extractDirectFeatures(pats, payment)

extractFeatures(pats, payment, preservePrivacy) ==
    IF preservePrivacy THEN extractPrivateFeatures(payment)
    ELSE extractDirectFeatures(pats, payment)

\* detectAnomalies with the frequency gate closed above 0.4 instead of opened.
detectAnomaliesGateInverted(features, sensitivity) ==
    (IF features.amountCategory > 4 /\ sensitivity > 30
     THEN <<"unusual_amount_category">> ELSE <<>>)
    \o (IF FracGreater(features.frequency, 8, 10) /\ sensitivity < 40
        THEN <<"high_frequency">> ELSE <<>>)
    \o (IF FracGreater(features.amountDeviation, 5, 10) /\ sensitivity > 50
        THEN <<"high_amount_deviation">> ELSE <<>>)
    \o (IF features.timePattern = 0 /\ sensitivity > 60
        THEN <<"irregular_timing">> ELSE <<>>)
    \o (IF features.chainPattern > 5 /\ sensitivity > 70
        THEN <<"excessive_chain_switching">> ELSE <<>>)

\* sensitivity is in hundredths
detectAnomalies(features, sensitivity) ==
    (IF features.amountCategory > 4 /\ sensitivity > 30
     THEN <<"unusual_amount_category">> ELSE <<>>)
    \o (IF FracGreater(features.frequency, 8, 10) /\ sensitivity > 40
        THEN <<"high_frequency">> ELSE <<>>)
    \o (IF FracGreater(features.amountDeviation, 5, 10) /\ sensitivity > 50
        THEN <<"high_amount_deviation">> ELSE <<>>)
    \o (IF features.timePattern = 0 /\ sensitivity > 60
        THEN <<"irregular_timing">> ELSE <<>>)
    \o (IF features.chainPattern > 5 /\ sensitivity > 70
        THEN <<"excessive_chain_switching">> ELSE <<>>)

\* The risk score in units of 1/10000.  On doubles 3 * 0.15 + 0.2 + 0.15 is
\* 0.7999999999999999, below the 0.8 cut; every other sum compares as its
\* decimal does.
calculateRiskScore(anomalies, features) ==
    LET n == Len(anomalies)
        f == FracGreater(features.frequency, 9, 10)
        d == FracGreater(features.amountDeviation, 7, 10)
        t == features.timePattern = 0
        risk == n * 1500 + (IF f THEN 2000 ELSE 0) + (IF d THEN 1500 ELSE 0)
                + (IF t THEN 1000 ELSE 0)
    IN  Min(10000, IF n = 3 /\ f /\ d /\ ~t THEN risk - 1 ELSE risk)

\* scoreToLevel with strict comparisons at the cut points.
scoreToLevelStrict(score) ==
    IF score > 8000 THEN "critical"
    ELSE IF score > 6000 THEN "high"
    ELSE IF score > 4000 THEN "medium"
    ELSE "low"

\* score in units of 1/10000
scoreToLevel(score) ==
    IF score >= 8000 THEN "critical"
    ELSE IF score >= 6000 THEN "high"
    ELSE IF score >= 4000 THEN "medium"
    ELSE "low"

\* confidence in units of 1/10000 (0.5 + 0.2 + 0.2 is 0.8999999999999999)
calculateConfidence(features, anomalies) ==
    LET f == features.frequency.den > 0 /\ features.frequency.num > 0
        a == Len(anomalies) > 0
    IN  IF f /\ a THEN 8999 ELSE 5000 + (IF f THEN 2000 ELSE 0) + (IF a THEN 2000 ELSE 0)

\* The value assessRisk resolves to, or the TypeError it rejects with.
assessRisk(pats, payment, options) ==
    IF extractionThrows(pats, payment, options.preservePrivacy)
    THEN [kind |-> "TypeError"]
    ELSE LET features == extractFeatures(pats, payment, options.preservePrivacy)
             anomalies == detectAnomalies(features, options.sensitivity)
             riskScore == calculateRiskScore(anomalies, features)
         IN  [kind |-> "ok",
              riskScore |-> riskScore,
              riskLevel |-> scoreToLevel(riskScore),
              anomalies |-> anomalies,
              confidence |-> calculateConfidence(features, anomalies)]

\* The patterns map as assessRisk leaves it: in direct mode analyzeChainPattern
\* adds the payment's chain to the stored pattern's chain set.
patternsAfterAssessRisk(pats, payment, options) ==
    IF options.preservePrivacy \/ noPattern(pats, payment) THEN pats
    ELSE [pats EXCEPT ![bytesToHex(payment.pseudonym)] = chainsAdded(@, payment.chain)]

updatePattern(pats, payment) ==
    LET key == bytesToHex(payment.pseudonym)
    IN  IF key \in DOMAIN pats
        THEN [pats EXCEPT ![key] =
                 [@ EXCEPT !.payments = Append(@, payment),
                           !.frequency = Len(pats[key].payments) + 1]]
        ELSE MapSet(pats, key,
                    [pseudonym |-> payment.pseudonym,
                     payments |-> <<payment>>,
                     frequency |-> 1,
                     avgAmount |-> payment.amount,
                     chains |-> {payment.chain}])

(***************************************************************************)
(* PrivacyAdapter                                                          *)
(*                                                                         *)
(* A PrivacyContext is [userPseudonym, transactionType, amount,            *)
(* threatLevel, networkConditions], the last three optional.  Congestion   *)
(* and network health are in hundredths.                                   *)
(***************************************************************************)
ThreatHistoryCapacity == 50

RecentThreats == 10

PrivacyLevels == <<"low", "medium", "high", "maximum">>

\* levels.indexOf(level), counted from 0; -1 when level is not in the array
indexOf(level) ==
    IF \E i \in 1..Len(PrivacyLevels) : PrivacyLevels[i] = level
    THEN (CHOOSE i \in 1..Len(PrivacyLevels) : PrivacyLevels[i] = level) - 1
    ELSE -1

\* adjustLevel wrapping around the ends of the tier list instead of clamping.
adjustLevelWrap(level, steps) ==
    PrivacyLevels[((indexOf(level) + steps) % Len(PrivacyLevels)) + 1]

adjustLevel(level, steps) ==
    LET newIndex == Max(0, Min(Len(PrivacyLevels) - 1, indexOf(level) + steps))
    IN  PrivacyLevels[newIndex + 1]

\* mapping[threat]; a key the table lacks gives undefined
threatToPrivacyLevel(threat) ==
    CASE threat = "low" -> "low"
      [] threat = "medium" -> "medium"
      [] threat = "high" -> "high"
      [] threat = "critical" -> "maximum"
      [] OTHER -> "undefined"

\* The adjustment table with one step up for a type it does not list.
typeAdjustmentStrict(type) ==
    CASE type = "payment" -> 0
      [] type = "reputation" -> -1
      [] type = "compliance" -> 1
      [] type = "governance" -> -1
      [] OTHER -> 1

\* adjustments[type] || 0
typeAdjustment(type) ==
    CASE type = "payment" -> 0
      [] type = "reputation" -> -1
      [] type = "compliance" -> 1
      [] type = "governance" -> -1
      [] OTHER -> 0

adjustForTransactionType(currentLevel, type) ==
    adjustLevel(currentLevel, typeAdjustment(type))

adjustForAmount(currentLevel, amount) ==
    IF amount > 10000000 THEN adjustLevel(currentLevel, 1)
    ELSE IF amount > 1000000 THEN adjustLevel(currentLevel, 0)
    ELSE adjustLevel(currentLevel, -1)

adjustForNetwork(currentLevel, conditions) ==
    IF conditions.congestion > 80 THEN adjustLevel(currentLevel, -1)
    ELSE IF conditions.networkHealth < 70 THEN adjustLevel(currentLevel, 1)
    ELSE currentLevel

threatValues(t) ==
    CASE t = "low" -> 1
      [] t = "medium" -> 2
      [] t = "high" -> 3
      [] t = "critical" -> 4

\* avg >= 3.5, 2.5, 1.5 for avg = sum / length, cleared of the denominator
calculateAverageThreat(threats) ==
    LET sum == SumSeq([i \in 1..Len(threats) |-> threatValues(threats[i])])
        n == Len(threats)
    IN  IF 2 * sum >= 7 * n THEN "critical"
        ELSE IF 2 * sum >= 5 * n THEN "high"
        ELSE IF 2 * sum >= 3 * n THEN "medium"
        ELSE "low"

\* assessThreat averaging the whole history.
lastThreatsAll(history) == history

\* history.slice(-10)
lastThreats(history) ==
    SubSeq(history, Max(1, Len(history) - RecentThreats + 1), Len(history))

\* assessThreat starting an identity without history at "low".
assessThreatLowStart(thist, context) ==
    LET history == GetOrEmpty(thist, bytesToHex(context.userPseudonym))
    IN  IF Len(history) = 0 THEN "low"
        ELSE IF context.transactionType = "compliance" THEN "high"
        ELSE IF context.transactionType = "governance" THEN "medium"
        ELSE calculateAverageThreat(lastThreats(history))

assessThreat(thist, context) ==
    LET history == GetOrEmpty(thist, bytesToHex(context.userPseudonym))
    IN  IF Len(history) = 0 THEN "medium"
        ELSE IF context.transactionType = "compliance" THEN "high"
        ELSE IF context.transactionType = "governance" THEN "medium"
        ELSE calculateAverageThreat(lastThreats(history))

\* initializePrivacyConfigs
privacyConfigs(level) ==
    CASE level = "low" ->
           [level |-> "low", proofSize |-> 1024, verifyTime |-> 10,
            zkProofRequired |-> FALSE, merkleDepth |-> 8, polynomialDegree |-> 4]
      [] level = "medium" ->
           [level |-> "medium", proofSize |-> 2048, verifyTime |-> 50,
            zkProofRequired |-> TRUE, merkleDepth |-> 12, polynomialDegree |-> 8]
      [] level = "high" ->
           [level |-> "high", proofSize |-> 4096, verifyTime |-> 100,
            zkProofRequired |-> TRUE, merkleDepth |-> 16, polynomialDegree |-> 16]
      [] level = "maximum" ->
           [level |-> "maximum", proofSize |-> 8192, verifyTime |-> 200,
            zkProofRequired |-> TRUE, merkleDepth |-> 20, polynomialDegree |-> 32]

\* adaptPrivacyLevel adding up the three offsets and clamping the sum once.
adaptedLevelSummed(thist, context) ==
    LET threatLevel == IF IsSome(context.threatLevel) THEN Get(context.threatLevel)
                       ELSE assessThreat(thist, context)
        amount == IF ~IsSome(context.amount) \/ Get(context.amount) = 0 THEN 0
                  ELSE IF Get(context.amount) > 10000000 THEN 1
                  ELSE IF Get(context.amount) > 1000000 THEN 0 ELSE -1
        network == IF ~IsSome(context.networkConditions) THEN 0
                   ELSE IF Get(context.networkConditions).congestion > 80 THEN -1
                   ELSE IF Get(context.networkConditions).networkHealth < 70 THEN 1
                   ELSE 0
    IN  adjustLevel(threatToPrivacyLevel(threatLevel),
                    typeAdjustment(context.transactionType) + amount + network)

\* The tier adaptPrivacyLevel ends with.  if (context.amount) skips an absent
\* amount and 0n alike.
adaptedLevel(thist, context) ==
    LET threatLevel == IF IsSome(context.threatLevel) THEN Get(context.threatLevel)
                       ELSE assessThreat(thist, context)
        l0 == threatToPrivacyLevel(threatLevel)
        l1 == adjustForTransactionType(l0, context.transactionType)
        l2 == IF IsSome(context.amount) /\ Get(context.amount) # 0
              THEN adjustForAmount(l1, Get(context.amount)) ELSE l1
        l3 == IF IsSome(context.networkConditions)
              THEN adjustForNetwork(l2, Get(context.networkConditions)) ELSE l2
    IN  l3

\* { ...config, level: baseLevel }
adaptPrivacyLevel(thist, context) ==
    [privacyConfigs(adaptedLevel(thist, context)) EXCEPT
        !.level = adaptedLevel(thist, context)]

\* updateThreatHistory: push, then shift once if the array is longer than 50.
updateThreatHistory(thist, pseudonym, threat) ==
    LET key == bytesToHex(pseudonym)
        pushed == Append(GetOrEmpty(thist, key), threat)
    IN  MapSet(thist, key,
               IF Len(pushed) > ThreatHistoryCapacity THEN Tail(pushed) ELSE pushed)

(***************************************************************************)
(* AIReputationLearner and its ReputationModel.  A JavaScript number is a  *)
(* fraction [num, den] in lowest terms with den > 0; NaN is 0/0.  Date.now *)
(* is an argument of the operations that read it.                          *)
(***************************************************************************)
RECURSIVE GCD(_, _)
GCD(a, b) == IF b = 0 THEN a ELSE GCD(b, a % b)

NaN == [num |-> 0, den |-> 0]

IsNaN(x) == x.den = 0

\* n / d   (0 / 0 is NaN; no other division by zero occurs in the code)
Frac(n, d) ==
    IF d = 0 THEN NaN
    ELSE LET g == GCD(Abs(n), Abs(d))
             sign == IF d < 0 THEN -1 ELSE 1
         IN  [num |-> sign * (n \div g), den |-> sign * (d \div g)]

Num(n) == [num |-> n, den |-> 1]

FracAdd(x, y) ==
    IF IsNaN(x) \/ IsNaN(y) THEN NaN
    ELSE Frac(x.num * y.den + y.num * x.den, x.den * y.den)

FracMul(x, y) ==
    IF IsNaN(x) \/ IsNaN(y) THEN NaN ELSE Frac(x.num * y.num, x.den * y.den)

\* x / y for y > 0 or NaN
FracDiv(x, y) ==
    IF IsNaN(x) \/ IsNaN(y) THEN NaN ELSE Frac(x.num * y.den, x.den * y.num)

\* x < y and x > y; a comparison with NaN is false
FracLess(x, y) == ~IsNaN(x) /\ ~IsNaN(y) /\ x.num * y.den < y.num * x.den

\* Math.min(a, b) and Math.max(a, b): NaN if either argument is NaN
FracMin(x, y) == IF IsNaN(x) \/ IsNaN(y) THEN NaN ELSE IF FracLess(y, x) THEN y ELSE x

FracMax(x, y) == IF IsNaN(x) \/ IsNaN(y) THEN NaN ELSE IF FracLess(x, y) THEN y ELSE x

\* The first seven bytes of sha256(pseudonym).
sha256Pseudonym(pseudonym) ==
    CASE pseudonym = <<1, 1>> -> <<157, 207, 151, 161, 132, 243, 38>>
      [] pseudonym = <<171, 205>> -> <<18, 61, 76, 126, 242, 209, 96>>

createEmptyFeatures ==
    [paymentCount |-> Num(0), totalAmount |-> Num(0), avgAmount |-> Num(0),
     successRate |-> Num(0), avgInterval |-> Num(0), chainDiversity |-> Num(0),
     recentActivity |-> Num(0)]

SevenDays == 604800000

\* Math.min(1.0, recentPayments.length / 10)
calculateRecentActivity(payments, now) ==
    LET recent == SelectSeq(payments, LAMBDA p : now - p.timestamp < SevenDays)
    IN  FracMin(Num(1), Frac(Len(recent), 10))

learnerExtractFeatures(payments, now) ==
    IF Len(payments) = 0 THEN createEmptyFeatures
    ELSE LET n == Len(payments)
             total == SumSeq([i \in 1..n |-> payments[i].amount])
             successCount == Len(SelectSeq(payments, LAMBDA p : p.success))
             stamps == {payments[i].timestamp : i \in 1..n}
             maxStamp == CHOOSE t \in stamps : \A u \in stamps : u <= t
             minStamp == CHOOSE t \in stamps : \A u \in stamps : t <= u
             timeSpan == maxStamp - minStamp
             uniqueChains == Cardinality({payments[i].chain : i \in 1..n})
         IN  [paymentCount |-> Num(n),
              totalAmount |-> Num(total),
              avgAmount |-> Frac(total, n),
              successRate |-> Frac(successCount, n),
              avgInterval |-> IF timeSpan > 0 THEN Frac(timeSpan, n) ELSE Num(0),
              chainDiversity |-> Frac(uniqueChains, 7),
              recentActivity |-> calculateRecentActivity(payments, now)]

learnerHashToNumber(hash, offset, max) == Frac(hash[offset + 1] * max, 255)

extractFeaturesFromPseudonym(pseudonym) ==
    LET hash == sha256Pseudonym(pseudonym)
    IN  [paymentCount |-> learnerHashToNumber(hash, 0, 100),
         totalAmount |-> learnerHashToNumber(hash, 1, 1000000),
         avgAmount |-> learnerHashToNumber(hash, 2, 10000),
         successRate |-> FracDiv(learnerHashToNumber(hash, 3, 100), Num(100)),
         avgInterval |-> learnerHashToNumber(hash, 4, 86400),
         chainDiversity |-> FracDiv(learnerHashToNumber(hash, 5, 100), Num(100)),
         recentActivity |-> FracDiv(learnerHashToNumber(hash, 6, 100), Num(100))]

\* isRegularPattern accepting a list of two payments.
isRegularPatternTwo(payments) ==
    IF Len(payments) < 2 THEN FALSE ELSE lowVariance(intervalsOf(payments))

isRegularPattern(payments) ==
    IF Len(payments) < 3 THEN FALSE ELSE lowVariance(intervalsOf(payments))

\* The patterns found, as the set of their types with the weight of each.
patternWeight(type) ==
    CASE type = "regular" -> Frac(3, 10)
      [] type = "high_value" -> Frac(2, 10)
      [] type = "multi_chain" -> Frac(2, 10)

identifyPatterns(payments) ==
    LET n == Len(payments)
        avgAmount == Frac(SumSeq([i \in 1..n |-> payments[i].amount]), n)
        chains == {payments[i].chain : i \in 1..n}
    IN  (IF isRegularPattern(payments) THEN {"regular"} ELSE {})
        \cup (IF FracLess(Num(1000000), avgAmount) THEN {"high_value"} ELSE {})
        \cup (IF Cardinality(chains) > 2 THEN {"multi_chain"} ELSE {})

identifyFactors(features) ==
    LET factors ==
            (IF FracLess(Num(10), features.paymentCount) THEN <<"high_activity">> ELSE <<>>)
            \o (IF FracLess(Frac(95, 100), features.successRate) THEN <<"reliable">> ELSE <<>>)
            \o (IF FracLess(Frac(5, 10), features.chainDiversity)
                THEN <<"multi_chain">> ELSE <<>>)
            \o (IF FracLess(Frac(7, 10), features.recentActivity)
                THEN <<"recent_activity">> ELSE <<>>)
            \o (IF FracLess(Num(100000), features.avgAmount) THEN <<"high_value">> ELSE <<>>)
    IN  IF Len(factors) > 0 THEN factors ELSE <<"new_user">>

ModelFactors == {"paymentCount", "successRate", "chainDiversity", "recentActivity"}

FeatureNames ==
    {"paymentCount", "totalAmount", "avgAmount", "successRate", "avgInterval",
     "chainDiversity", "recentActivity"}

\* features[factor]: undefined, and NaN in arithmetic, for a key that is no feature
featureValue(features, factor) ==
    IF factor \in FeatureNames THEN features[factor] ELSE NaN

\* ReputationModel.train
modelTrain(w, features, labels) ==
    LET avgLabel == Frac(SumSeq(labels), Len(labels))
    IN  [k \in (DOMAIN w) \cup ModelFactors |->
            IF k \in ModelFactors
            THEN (IF FracLess(Num(0), features[k])
                  THEN FracDiv(avgLabel, features[k]) ELSE Num(0))
            ELSE w[k]]

RECURSIVE weightedSum(_, _, _)
weightedSum(w, features, keys) ==
    IF keys = {} THEN Num(0)
    ELSE LET k == CHOOSE x \in keys : TRUE
         IN  FracAdd(FracMul(FracMul(featureValue(features, k), w[k]), Num(10)),
                     weightedSum(w, features, keys \ {k}))

\* ReputationModel.predict
modelPredict(w, features) ==
    LET raw == FracAdd(Num(50), weightedSum(w, features, DOMAIN w))
        dataQuality == IF FracLess(Num(0), features.paymentCount)
                       THEN FracMin(Num(1), FracDiv(features.paymentCount, Num(10)))
                       ELSE Num(0)
    IN  [score |-> FracMax(Num(0), FracMin(Num(100), raw)),
         confidence |-> FracAdd(Frac(1, 2), FracMul(dataQuality, Frac(1, 2)))]

RECURSIVE modelUpdate(_, _)
modelUpdate(w, types) ==
    IF types = {} THEN w
    ELSE LET t == CHOOSE x \in types : TRUE
             currentWeight == IF t \in DOMAIN w THEN w[t] ELSE Num(0)
         IN  modelUpdate(MapSet(w, t, FracAdd(currentWeight, patternWeight(t))),
                         types \ {t})

\* AIReputationLearner.predict; paymentHistory is optional
predict(w, trained, pseudonym, paymentHistory, now) ==
    IF ~trained /\ ~IsSome(paymentHistory)
    THEN [score |-> Num(50), confidence |-> Frac(1, 2), factors |-> <<"insufficient_data">>]
    ELSE LET features == IF IsSome(paymentHistory)
                         THEN learnerExtractFeatures(Get(paymentHistory), now)
                         ELSE extractFeaturesFromPseudonym(pseudonym)
             prediction == modelPredict(w, features)
         IN  [score |-> prediction.score,
              confidence |-> prediction.confidence,
              factors |-> identifyFactors(features)]

\* learnFromPayments marking the learner as trained.
trainedAfterLearningSet(trained) == TRUE

\* learnFromPayments: the flag it leaves (it never sets it)
trainedAfterLearning(trained) == trained

(***************************************************************************)
(* The operations.  Every handler is one atomic step.  A query leaves its  *)
(* arguments and its result in call; Return hands the result to the caller *)
(* and makes the engine ready for the next call.                           *)
(***************************************************************************)
EmptyMap == [k \in {} |-> <<>>]

\* The IntelligenceConfig of a facade constructed without an argument.
DefaultConfig ==
    [enablePaymentRouting |-> TRUE, enableReputationLearning |-> TRUE,
     enablePrivacyAdaptation |-> TRUE, enableFraudDetection |-> TRUE]

Init ==
    /\ routingHistory = EmptyMap
    /\ routeLog = EmptyMap
    /\ threatHistory = EmptyMap
    /\ threatLog = EmptyMap
    /\ patterns = EmptyMap
    /\ call = Idle
    /\ weights = EmptyMap
    /\ trainingData = <<>>
    /\ isTrained = FALSE
    /\ tasks = EmptyMap
    /\ facade = [config |-> DefaultConfig, patterns |-> EmptyMap]

UpdateHistory(chain, route) ==
    /\ call = Idle
    /\ routingHistory' = updateHistory(routingHistory, chain, route)
    /\ routeLog' = MapSet(routeLog, chain, Append(GetOrEmpty(routeLog, chain), route))
    /\ UNCHANGED <<threatHistory, threatLog, patterns, call,
                 learnerVars, tasks, facade>>

UpdateThreatHistory(pseudonym, threat) ==
    /\ call = Idle
    /\ threatHistory' = updateThreatHistory(threatHistory, pseudonym, threat)
    /\ threatLog' = MapSet(threatLog, bytesToHex(pseudonym),
                           Append(GetOrEmpty(threatLog, bytesToHex(pseudonym)), threat))
    /\ UNCHANGED <<routingHistory, routeLog, patterns, call,
                 learnerVars, tasks, facade>>

UpdatePattern(payment) ==
    /\ call = Idle
    /\ patterns' = updatePattern(patterns, payment)
    /\ UNCHANGED <<routingHistory, routeLog, threatHistory, threatLog, call,
                 learnerVars, tasks, facade>>

FindOptimalRoute(options) ==
    /\ call = Idle
    /\ call' = [op |-> "findOptimalRoute", options |-> options,
                res |-> [kind |-> "ok", route |-> findOptimalRoute(routingHistory, options)]]
    /\ UNCHANGED <<routingHistory, routeLog, threatHistory, threatLog, patterns,
                 learnerVars, tasks, facade>>

AssessRisk(payment, options) ==
    /\ call = Idle
    /\ call' = [op |-> "assessRisk", payment |-> payment, options |-> options,
                res |-> assessRisk(patterns, payment, options)]
    /\ patterns' = patternsAfterAssessRisk(patterns, payment, options)
    /\ UNCHANGED <<routingHistory, routeLog, threatHistory, threatLog,
                 learnerVars, tasks, facade>>

AdaptPrivacyLevel(context) ==
    /\ call = Idle
    /\ call' = [op |-> "adaptPrivacyLevel", context |-> context,
                res |-> [kind |-> "ok", config |-> adaptPrivacyLevel(threatHistory, context)]]
    /\ UNCHANGED <<routingHistory, routeLog, threatHistory, threatLog, patterns,
                 learnerVars, tasks, facade>>

\* The private helpers below are called on their own, to check them as functions.
AdjustLevel(level, steps) ==
    /\ call = Idle
    /\ call' = [op |-> "adjustLevel", level |-> level, steps |-> steps,
                res |-> adjustLevel(level, steps)]
    /\ UNCHANGED <<routingHistory, routeLog, threatHistory, threatLog, patterns,
                 learnerVars, tasks, facade>>

ScoreToLevel(score) ==
    /\ call = Idle
    /\ call' = [op |-> "scoreToLevel", score |-> score, res |-> scoreToLevel(score)]
    /\ UNCHANGED <<routingHistory, routeLog, threatHistory, threatLog, patterns,
                 learnerVars, tasks, facade>>

DetectAnomalies(features, sensitivity) ==
    /\ call = Idle
    /\ call' = [op |-> "detectAnomalies", features |-> features,
                sensitivity |-> sensitivity,
                res |-> detectAnomalies(features, sensitivity)]
    /\ UNCHANGED <<routingHistory, routeLog, threatHistory, threatLog, patterns,
                 learnerVars, tasks, facade>>

Train(data, now) ==
    /\ call = Idle
    /\ trainingData' = Append(trainingData, data)
    /\ weights' = modelTrain(weights, learnerExtractFeatures(data.payments, now), data.labels)
    /\ isTrained' = TRUE
    /\ UNCHANGED <<routingHistory, routeLog, threatHistory, threatLog, patterns, call, tasks, facade>>

LearnFromPayments(payments) ==
    /\ call = Idle
    /\ weights' = modelUpdate(weights, identifyPatterns(payments))
    /\ isTrained' = trainedAfterLearning(isTrained)
    /\ UNCHANGED <<routingHistory, routeLog, threatHistory, threatLog, patterns, call,
                   trainingData, tasks, facade>>

Predict(pseudonym, paymentHistory, now) ==
    /\ call = Idle
    /\ call' = [op |-> "predict", pseudonym |-> pseudonym,
                paymentHistory |-> paymentHistory, now |-> now,
                res |-> predict(weights, isTrained, pseudonym, paymentHistory, now)]
    /\ UNCHANGED <<routingHistory, routeLog, threatHistory, threatLog, patterns,
                   learnerVars, tasks, facade>>

Return ==
    /\ call # Idle
    /\ call' = Idle
    /\ UNCHANGED <<routingHistory, routeLog, threatHistory, threatLog, patterns,
                 learnerVars, tasks, facade>>

(***************************************************************************)
(* Inputs                                                                  *)
(***************************************************************************)
Pseudonyms == {<<1, 1>>, <<171, 205>>}

ThreatLevels == {"low", "medium", "high", "critical"}

TierSet == {"low", "medium", "high", "maximum"}

RECURSIVE SumLens(_, _)
SumLens(map, keys) ==
    IF keys = {} THEN 0
    ELSE LET k == CHOOSE x \in keys : TRUE
         IN  Len(map[k]) + SumLens(map, keys \ {k})

\* The number of entries ever recorded in a log.
Recorded(log) == SumLens(log, DOMAIN log)

(***************************************************************************)
(* SpecHistory: the two bounded histories filled beyond their capacity.    *)
(* One key of each store is filled past the capacity, a second key holds a *)
(* few entries.  The k-th route recorded for a chain carries the serial    *)
(* number k as its gas, so that the order of the entries can be read off;  *)
(* the threats recorded for a pseudonym run through the four levels.       *)
(***************************************************************************)
ExtraRecords == 2

OtherRecords == 1

HistoryChains == {"ethereum", "solana"}

MaxRouteRecords(chain) ==
    IF chain = "ethereum" THEN RouteHistoryCapacity + ExtraRecords ELSE OtherRecords

MaxThreatRecords(pseudonym) ==
    IF pseudonym = <<1, 1>> THEN ThreatHistoryCapacity + ExtraRecords ELSE OtherRecords

SerialRoute(chain) ==
    [createDefaultRoute(chain) EXCEPT
        !.estimatedGas = 21000 + Len(GetOrEmpty(routeLog, chain))]

SerialThreat(pseudonym) ==
    LET n == Len(GetOrEmpty(threatLog, bytesToHex(pseudonym)))
    IN  <<"low", "medium", "high", "critical">>[((n + (n \div 7)) % 4) + 1]

NextHistory ==
    \/ \E chain \in HistoryChains :
          /\ Len(GetOrEmpty(routeLog, chain)) < MaxRouteRecords(chain)
          /\ UpdateHistory(chain, SerialRoute(chain))
    \/ \E pseudonym \in Pseudonyms :
          /\ Len(GetOrEmpty(threatLog, bytesToHex(pseudonym))) < MaxThreatRecords(pseudonym)
          /\ UpdateThreatHistory(pseudonym, SerialThreat(pseudonym))

SpecHistory == Init /\ [][NextHistory]_vars

(***************************************************************************)
(* SpecRouter: the router with a short routing history.                    *)
(***************************************************************************)
MaxRoutes == 2

RouterChains == {"bsc", "solana"}

\* Routes handed to updateHistory: one that counts as successful (0.95) and
\* one that does not (0.5).
RouteInputs(chain) ==
    {[createDefaultRoute(chain) EXCEPT !.successRate = s] : s \in {150, 285}}

RouteOptions ==
    [amount : {1000000, 5000000},
     targetChain : {None, Some("polygon")},
     privacyLevel : TierSet,
     maxGasPrice : {None, Some(0), Some(50), Some(5500), Some(30000)},
     preferredChains : {None, Some(<<>>), Some(<<"unknown">>), Some(<<"bsc", "solana">>)}]

NextRouter ==
    \/ \E chain \in RouterChains : \E route \in RouteInputs(chain) :
          /\ Recorded(routeLog) < MaxRoutes
          /\ UpdateHistory(chain, route)
    \/ \E options \in RouteOptions : FindOptimalRoute(options)
    \/ Return

SpecRouter == Init /\ [][NextRouter]_vars

(***************************************************************************)
(* SpecPrivacy: the privacy adapter with a short threat history.           *)
(***************************************************************************)
MaxThreats == 2

ThreatInputs == {"low", "high", "critical"}

NetworkInputs ==
    {[congestion |-> 90, avgGasPrice |-> 100, networkHealth |-> 80],
     [congestion |-> 50, avgGasPrice |-> 20, networkHealth |-> 50],
     [congestion |-> 80, avgGasPrice |-> 20, networkHealth |-> 70]}

PrivacyContexts ==
    [userPseudonym : Pseudonyms,
     transactionType : {"payment", "reputation", "compliance", "governance"},
     amount : {None, Some(0), Some(500000), Some(5000000), Some(20000000)},
     threatLevel : {None} \cup {Some(t) : t \in ThreatLevels},
     networkConditions : {None} \cup {Some(n) : n \in NetworkInputs}]

NextPrivacy ==
    \/ \E pseudonym \in Pseudonyms : \E threat \in ThreatInputs :
          /\ Recorded(threatLog) < MaxThreats
          /\ UpdateThreatHistory(pseudonym, threat)
    \/ \E context \in PrivacyContexts : AdaptPrivacyLevel(context)
    \/ Return

SpecPrivacy == Init /\ [][NextPrivacy]_vars

(***************************************************************************)
(* SpecFraud: the fraud detector with a few learned payments.              *)
(***************************************************************************)
MaxPayments == 2

PatternPayments ==
    [pseudonym : Pseudonyms, amount : {1000, 3000}, timestamp : {10, 20},
     chain : {"ethereum"}, commitment : {0}]

RECURSIVE StoredPayments(_, _)
StoredPayments(pats, keys) ==
    IF keys = {} THEN 0
    ELSE LET k == CHOOSE x \in keys : TRUE
         IN  Len(pats[k].payments) + StoredPayments(pats, keys \ {k})

\* The chains a direct-mode query names: one the pattern has seen, or the
\* first of the seven it has not.
QueryChains(pats, pseudonym) ==
    LET key == bytesToHex(pseudonym)
        seen == IF key \in DOMAIN pats THEN pats[key].chains ELSE {}
        unseen == {i \in 1..Len(DefaultChains) : DefaultChains[i] \notin seen}
    IN  {"ethereum"}
        \cup (IF key \in DOMAIN pats /\ unseen # {}
              THEN {DefaultChains[CHOOSE i \in unseen : \A j \in unseen : i <= j]}
              ELSE {})

DirectPayments(pats) ==
    {[pseudonym |-> ps, amount |-> a, timestamp |-> 30, chain |-> c, commitment |-> 0] :
        <<ps, a, c>> \in {x \in Pseudonyms \X {1000, 3000} \X chainMetricsKeys :
                            x[3] \in QueryChains(pats, x[1])}}

PrivatePayments ==
    [pseudonym : {<<1, 1>>}, amount : {1000}, timestamp : {30},
     chain : {"ethereum"}, commitment : {0, 7, 8, 124}]

Sensitivities == {50, 65, 80}

NextFraud ==
    \/ \E payment \in PatternPayments :
          /\ StoredPayments(patterns, DOMAIN patterns) < MaxPayments
          /\ UpdatePattern(payment)
    \/ \E payment \in DirectPayments(patterns) : \E sensitivity \in Sensitivities :
          AssessRisk(payment, [preservePrivacy |-> FALSE, sensitivity |-> sensitivity])
    \/ \E payment \in PrivatePayments : \E sensitivity \in Sensitivities :
          AssessRisk(payment, [preservePrivacy |-> TRUE, sensitivity |-> sensitivity])
    \/ Return

SpecFraud == Init /\ [][NextFraud]_vars

(***************************************************************************)
(* SpecPure: adjustLevel, scoreToLevel and detectAnomalies as functions.   *)
(***************************************************************************)
MaxSteps == 5

ScoreStep == 250

MaxScoreSteps == 44

ScoreInputs ==
    {i * ScoreStep : i \in 0..MaxScoreSteps}
    \cup {3999, 4000, 4001, 5999, 6000, 6001, 7999, 8000, 8001}

FeatureInputs ==
    [amountCategory : {0, 4, 5},
     timePattern : {0, 1},
     chainPattern : {5, 6},
     frequency : {[num |-> 80, den |-> 100], [num |-> 81, den |-> 100]},
     amountDeviation : {[num |-> 50, den |-> 100], [num |-> 51, den |-> 100]}]

GateSensitivities == {0, 30, 31, 40, 41, 50, 51, 60, 61, 70, 71, 100}

NextPure ==
    \/ \E level \in TierSet : \E steps \in (0 - MaxSteps)..MaxSteps :
          AdjustLevel(level, steps)
    \/ \E score \in ScoreInputs : ScoreToLevel(score)
    \/ \E features \in FeatureInputs : \E sensitivity \in GateSensitivities :
          DetectAnomalies(features, sensitivity)
    \/ Return

SpecPure == Init /\ [][NextPure]_vars

(***************************************************************************)
(* Spec: the whole engine, every public operation, a few updates, and      *)
(* arguments outside the declared types among the inputs.                  *)
(***************************************************************************)
MaxUpdates == 1

Updates == Recorded(routeLog) + Recorded(threatLog) + StoredPayments(patterns, DOMAIN patterns)

EngineRouteOptions ==
    [amount : {5000000},
     targetChain : {None},
     privacyLevel : {"medium", "high", "ultra"},
     maxGasPrice : {None, Some(5500)},
     preferredChains : {None, Some(<<"unknown">>), Some(<<"bsc", "unknown", "solana">>),
                        Some(<<"bsc", "solana">>)}]

EngineContexts ==
    [userPseudonym : Pseudonyms,
     transactionType : {"payment", "compliance", "transfer"},
     amount : {None, Some(5000000), Some(20000000)},
     threatLevel : {None, Some("low"), Some("high"), Some("severe")},
     networkConditions : {None}]

EnginePayments ==
    [pseudonym : Pseudonyms, amount : {1000}, timestamp : {10},
     chain : {"ethereum"}, commitment : {0}]

Next ==
    \/ \E chain \in RouterChains : \E route \in RouteInputs(chain) :
          /\ Updates < MaxUpdates
          /\ UpdateHistory(chain, route)
    \/ \E pseudonym \in Pseudonyms : \E threat \in ThreatInputs :
          /\ Updates < MaxUpdates
          /\ UpdateThreatHistory(pseudonym, threat)
    \/ \E payment \in EnginePayments :
          /\ Updates < MaxUpdates
          /\ UpdatePattern(payment)
    \/ \E options \in EngineRouteOptions : FindOptimalRoute(options)
    \/ \E context \in EngineContexts : AdaptPrivacyLevel(context)
    \/ \E payment \in DirectPayments(patterns) :
          AssessRisk(payment, [preservePrivacy |-> FALSE, sensitivity |-> 80])
    \/ \E payment \in PrivatePayments :
          AssessRisk(payment, [preservePrivacy |-> TRUE, sensitivity |-> 50])
    \/ Return

Spec == Init /\ [][Next]_vars

(***************************************************************************)
(* SpecLearner: the reputation learner trained and taught a few times.     *)
(***************************************************************************)
MaxTrainings == 1

MaxLearnings == 2

learnerPayment(amount, timestamp, chain, success) ==
    [pseudonym |-> <<1, 1>>, amount |-> amount, timestamp |-> timestamp,
     chain |-> chain, success |-> success]

\* One large payment; two small payments, one failed; three small payments
\* at equal intervals on three chains; and no payment.
LearnerHistories ==
    {<<>>,
     <<learnerPayment(2000000, 100, "ethereum", TRUE)>>,
     <<learnerPayment(1000, 100, "ethereum", TRUE),
       learnerPayment(3000, 500, "ethereum", FALSE)>>,
     <<learnerPayment(1000, 100, "ethereum", TRUE),
       learnerPayment(1000, 200, "polygon", TRUE),
       learnerPayment(1000, 300, "bsc", TRUE)>>}

LabelInputs == {<<>>, <<80>>, <<0, 1>>}

TrainingInputs == [payments : LearnerHistories, labels : LabelInputs]

\* Date.now(): shortly after the payments, and more than seven days after.
Nows == {1000, 700000000}

\* The number of patterns learnFromPayments has added to the weights.
patternsLearned ==
    LET count(t) == IF t \in DOMAIN weights
                    THEN FracDiv(weights[t], patternWeight(t)).num ELSE 0
    IN  count("regular") + count("high_value")

NextLearner ==
    \/ \E data \in TrainingInputs : \E now \in Nows :
          /\ Len(trainingData) < MaxTrainings
          /\ Train(data, now)
    \/ \E payments \in LearnerHistories :
          /\ patternsLearned < MaxLearnings
          /\ LearnFromPayments(payments)
    \/ \E pseudonym \in Pseudonyms :
       \E paymentHistory \in {None} \cup {Some(h) : h \in LearnerHistories} :
       \E now \in Nows :
          Predict(pseudonym, paymentHistory, now)
    \/ Return

SpecLearner == Init /\ [][NextLearner]_vars

(***************************************************************************)
(* Properties                                                              *)
(***************************************************************************)
LastN(s, n) == SubSeq(s, Len(s) - Min(Len(s), n) + 1, Len(s))

Elements(s) == {s[i] : i \in 1..Len(s)}

\* C1: after any sequence of updateHistory calls a chain's stored array holds
\* at most 100 routes, exactly the most recent min(n, 100) of the n recorded
\* for it, in insertion order; likewise updateThreatHistory keeps the most
\* recent min(n, 50) threat levels of a pseudonym.
C1_BoundedFifo ==
    /\ DOMAIN routingHistory = DOMAIN routeLog
    /\ \A chain \in DOMAIN routeLog :
          /\ Len(routingHistory[chain]) <= 100
          /\ routingHistory[chain] = LastN(routeLog[chain], 100)
    /\ DOMAIN threatHistory = DOMAIN threatLog
    /\ \A key \in DOMAIN threatLog :
          /\ Len(threatHistory[key]) <= 50
          /\ threatHistory[key] = LastN(threatLog[key], 50)

C1_Evicted ==
    /\ \E chain \in DOMAIN routeLog :
          Len(routeLog[chain]) > 100 /\ Len(routingHistory[chain]) = 100
    /\ \E key \in DOMAIN threatLog :
          Len(threatLog[key]) > 50 /\ Len(threatHistory[key]) = 50

\* The candidates that pass the privacy filter and, when maxGasPrice is
\* supplied, the fee filter, in ranked order.
passingBoth(hist, options) ==
    SelectSeq(sortedRoutes(hist, options),
              LAMBDA r : /\ r.privacyScore >= getPrivacyScore(options.privacyLevel)
                         /\ IsSome(options.maxGasPrice)
                               => r.estimatedGas <= Get(options.maxGasPrice))

\* C2: findOptimalRoute returns the top-ranked candidate that passes the
\* privacy and fee filters; if none passes, the top-ranked candidate before
\* filtering; if there is no candidate, the default route for targetChain or
\* "ethereum".
C2_ThreeLevelFallback ==
    call.op = "findOptimalRoute" =>
        call.res.route =
            IF passingBoth(routingHistory, call.options) # <<>>
            THEN Head(passingBoth(routingHistory, call.options))
            ELSE IF sortedRoutes(routingHistory, call.options) # <<>>
            THEN Head(sortedRoutes(routingHistory, call.options))
            ELSE createDefaultRoute(targetOrEthereum(call.options))

\* C3: when maxGasPrice is supplied, 0 included, the returned route's
\* estimatedGas is at most maxGasPrice, unless no candidate passes both
\* filters, and then the route returned is the top-ranked candidate before
\* filtering (the default route when there is no candidate).
C3_FeeCeiling ==
    (call.op = "findOptimalRoute" /\ IsSome(call.options.maxGasPrice)) =>
        \/ call.res.route.estimatedGas <= Get(call.options.maxGasPrice)
        \/ /\ passingBoth(routingHistory, call.options) = <<>>
           /\ call.res.route =
                 IF sortedRoutes(routingHistory, call.options) # <<>>
                 THEN Head(sortedRoutes(routingHistory, call.options))
                 ELSE createDefaultRoute(targetOrEthereum(call.options))

tierIndex(level) ==
    CASE level = "low" -> 0
      [] level = "medium" -> 1
      [] level = "high" -> 2
      [] level = "maximum" -> 3

\* C4: adjustLevel(t, n) is the tier whose index is the index of t plus n,
\* clamped to 0..3: n >= 3 gives "maximum", n <= -3 gives "low", and it never
\* wraps around.
C4_AdjustLevelClamps ==
    call.op = "adjustLevel" =>
        /\ call.res \in TierSet
        /\ tierIndex(call.res) = Max(0, Min(3, tierIndex(call.level) + call.steps))
        /\ call.steps >= 3 => call.res = "maximum"
        /\ call.steps <= -3 => call.res = "low"

C4_Clamped ==
    /\ call.op = "adjustLevel"
    /\ tierIndex(call.level) + call.steps > 3
    /\ call.res = "maximum"

riskRank(level) ==
    CASE level = "low" -> 0
      [] level = "medium" -> 1
      [] level = "high" -> 2
      [] level = "critical" -> 3

\* C5: scoreToLevel is monotonic: a score at or above 0.8 is "critical", at or
\* above 0.6 "high", at or above 0.4 "medium", anything lower "low", so a
\* higher score never gets a lower level.
C5_ScoreToLevelMonotonic ==
    call.op = "scoreToLevel" =>
        /\ call.res = (IF call.score >= 8000 THEN "critical"
                       ELSE IF call.score >= 6000 THEN "high"
                       ELSE IF call.score >= 4000 THEN "medium"
                       ELSE "low")
        /\ \A lower \in ScoreInputs :
              lower <= call.score => riskRank(scoreToLevel(lower)) <= riskRank(call.res)

C5_AtCutPoint ==
    /\ call.op = "scoreToLevel"
    /\ call.score = 8000
    /\ call.res = "critical"

\* C6: for fixed features the anomalies detectAnomalies reports at one
\* sensitivity are all reported at every higher sensitivity.
C6_SensitivityMonotone ==
    call.op = "detectAnomalies" =>
        \A higher \in GateSensitivities :
            higher >= call.sensitivity =>
                Elements(call.res) \subseteq
                    Elements(detectAnomalies(call.features, higher))

C6_SomeReported ==
    /\ call.op = "detectAnomalies"
    /\ call.sensitivity = 41
    /\ Elements(call.res) = {"unusual_amount_category", "high_frequency"}

QueryOps == {"findOptimalRoute", "assessRisk", "adaptPrivacyLevel"}

\* C8: a query entry point (findOptimalRoute, assessRisk, adaptPrivacyLevel)
\* leaves the routing history, the threat history and every stored pattern,
\* its chain set included, as they were.
C8_QueriesReadOnly ==
    [][call'.op \in QueryOps =>
          UNCHANGED <<routingHistory, threatHistory, patterns, facade>>]_vars

\* C9: assessRisk in direct mode for a pseudonym with no stored pattern
\* returns an assessment instead of failing.
C9_NoPatternAssessed ==
    (/\ call.op = "assessRisk"
     /\ ~call.options.preservePrivacy
     /\ noPattern(patterns, call.payment)) => call.res.kind = "ok"

knownChains(chains) == SelectSeq(chains, LAMBDA c : c \in chainMetricsKeys)

TransactionTypes == {"payment", "reputation", "compliance", "governance"}

inconsistentRouting(options) ==
    \/ options.privacyLevel \notin TierSet
    \/ /\ IsSome(options.preferredChains)
       /\ knownChains(Get(options.preferredChains)) # Get(options.preferredChains)

inconsistentContext(context) ==
    \/ context.transactionType \notin TransactionTypes
    \/ IsSome(context.threatLevel) /\ Get(context.threatLevel) \notin ThreatLevels

\* C10 as stated: a call with an unknown privacy level, a chain without a
\* venue profile, an unrecognised threat level or an unrecognised transaction
\* type fails with a ConfigurationError.
C10_ConfigurationError ==
    /\ (call.op = "findOptimalRoute" /\ inconsistentRouting(call.options))
          => call.res.kind = "ConfigurationError"
    /\ (call.op = "adaptPrivacyLevel" /\ inconsistentContext(call.context))
          => call.res.kind = "ConfigurationError"

\* C10 amended: such a call returns normally with a default.  An unknown
\* privacy level routes as "medium" does; a preferred chain without a venue
\* profile is skipped; an unrecognised transaction type adjusts as "payment"
\* does; an unrecognised supplied threat level ends where threat "low" with
\* one step down ends.
C10_DefaultsNotErrors ==
    /\ call.op = "findOptimalRoute" =>
          /\ call.res.kind = "ok"
          /\ call.options.privacyLevel \notin TierSet =>
                call.res.route =
                    findOptimalRoute(routingHistory,
                        [call.options EXCEPT !.privacyLevel = "medium"])
          /\ IsSome(call.options.preferredChains) =>
                call.res.route =
                    findOptimalRoute(routingHistory,
                        [call.options EXCEPT
                            !.preferredChains = Some(knownChains(Get(@)))])
    /\ call.op = "adaptPrivacyLevel" =>
          /\ call.res.kind = "ok"
          /\ call.context.transactionType \notin TransactionTypes =>
                call.res.config =
                    adaptPrivacyLevel(threatHistory,
                        [call.context EXCEPT !.transactionType = "payment"])
          /\ (/\ IsSome(call.context.threatLevel)
              /\ Get(call.context.threatLevel) \notin ThreatLevels) =>
                call.res.config =
                    adaptPrivacyLevel(threatHistory,
                        [call.context EXCEPT !.threatLevel = Some("low"),
                                             !.transactionType = "reputation"])

C10_Defaulted ==
    /\ call.op = "adaptPrivacyLevel"
    /\ call.context.transactionType = "transfer"
    /\ call.context.threatLevel = Some("high")
    /\ call.res.kind = "ok"
    /\ call.res.config.level = "high"

\* The step the amount stage of adaptPrivacyLevel takes: none for an absent
\* amount and for 0n, else the bracket's.
amountStep(amount) ==
    IF ~IsSome(amount) \/ Get(amount) = 0 THEN 0
    ELSE IF Get(amount) > 10000000 THEN 1
    ELSE IF Get(amount) > 1000000 THEN 0
    ELSE -1

\* The step the network stage takes.
networkStep(conditions) ==
    IF ~IsSome(conditions) THEN 0
    ELSE IF Get(conditions).congestion > 80 THEN -1
    ELSE IF Get(conditions).networkHealth < 70 THEN 1
    ELSE 0

noHistoryCompliance ==
    /\ call.op = "adaptPrivacyLevel"
    /\ GetOrEmpty(threatHistory, bytesToHex(call.context.userPseudonym)) = <<>>
    /\ ~IsSome(call.context.threatLevel)
    /\ call.context.transactionType = "compliance"

\* C11 as stated: with no threat history and no supplied threat level, a
\* "compliance" context yields level "high" or "maximum", whatever amount and
\* network conditions it carries.
C11_ComplianceAtLeastHigh ==
    noHistoryCompliance => call.res.config.level \in {"high", "maximum"}

\* C11 amended: such a context starts from "high" after the category step and
\* ends at "high" or "maximum" exactly when the amount and network steps do
\* not take it below: an amount above 10,000,000, or no amount step and no
\* step down for congestion, or a step down for a small amount followed by a
\* step up for poor network health.  Without amount and network conditions
\* the level is "high".
C11_ComplianceFromHigh ==
    noHistoryCompliance =>
        LET a == amountStep(call.context.amount)
            n == networkStep(call.context.networkConditions)
        IN  /\ call.res.config.level \in {"high", "maximum"}
                <=> (a = 1 \/ (a = 0 /\ n >= 0) \/ (a = -1 /\ n = 1))
            /\ (a = 0 /\ n = 0) => call.res.config.level = "high"

C11_ComplianceLowered ==
    /\ noHistoryCompliance
    /\ call.context.amount = Some(500000)
    /\ ~IsSome(call.context.networkConditions)
    /\ call.res.config.level = "medium"

\* C12: after any train and learnFromPayments calls, the score of every
\* predict result is a number between 0 and 100.
C12_ScoreInRange ==
    call.op = "predict" =>
        /\ ~IsNaN(call.res.score)
        /\ ~FracLess(call.res.score, Num(0))
        /\ ~FracLess(Num(100), call.res.score)

\* C13: a learner on which train was never called answers predict without a
\* payment history with score 50, confidence 0.5 and factors
\* [insufficient_data], for every pseudonym and after any learnFromPayments.
C13_UntrainedSentinel ==
    (/\ call.op = "predict"
     /\ trainingData = <<>>
     /\ ~IsSome(call.paymentHistory)) =>
        call.res = [score |-> Num(50), confidence |-> Frac(1, 2),
                    factors |-> <<"insufficient_data">>]

C13_SentinelAfterLearning ==
    /\ call.op = "predict"
    /\ trainingData = <<>>
    /\ DOMAIN weights # {}
    /\ ~IsSome(call.paymentHistory)
    /\ call.res.factors = <<"insufficient_data">>

\* The payments that carry a given commitment.
paymentsCommitting(commitment) ==
    [pseudonym : Pseudonyms, amount : {1000, 3000}, timestamp : {10, 30},
     chain : {"ethereum", "solana"}, commitment : {commitment}]

\* C14: with preservePrivacy = true the assessment depends on the commitment
\* only: any payment with the same commitment bytes, assessed at the same
\* sensitivity over any recorded patterns (the present ones, or none), gets
\* the same result.
C14_CommitmentOnly ==
    (call.op = "assessRisk" /\ call.options.preservePrivacy) =>
        \A other \in paymentsCommitting(call.payment.commitment) :
            /\ assessRisk(patterns, other, call.options) = call.res
            /\ assessRisk(EmptyMap, other, call.options) = call.res

C14_PrivateWithHistory ==
    /\ call.op = "assessRisk"
    /\ call.options.preservePrivacy
    /\ ~noPattern(patterns, call.payment)
    /\ call.res.kind = "ok"
    /\ Len(call.res.anomalies) > 0

(***************************************************************************)
(* SpecAsync: asynchronous calls interleaved at their awaits.  A call of   *)
(* findOptimalRoute runs to its first await, which follows the call of     *)
(* calculateRoute for the first chain with metrics; every resumption takes *)
(* it to the next await, and the last one sorts, filters and resolves.     *)
(* learnFromPayment awaits findOptimalRoute and, resumed with the route,   *)
(* runs updateHistory and updatePattern without a further await.           *)
(* updateHistory itself is synchronous.  The solana history is first       *)
(* filled to one below its capacity.                                       *)
(***************************************************************************)
AsyncRecords == 2

MaxLearnCalls == 2

\* The tail of findOptimalRoute, from the sort on, for the routes collected.
selectRoute(routes, options) ==
    LET sorted == sortRoutes(routes)
        filtered == SelectSeq(sorted,
                        LAMBDA r : r.privacyScore >= getPrivacyScore(options.privacyLevel))
        final == IF IsSome(options.maxGasPrice) /\ Get(options.maxGasPrice) # 0
                 THEN SelectSeq(filtered,
                                LAMBDA r : r.estimatedGas <= Get(options.maxGasPrice))
                 ELSE filtered
    IN  IF final # <<>> THEN Head(final)
        ELSE IF sorted # <<>> THEN Head(sorted)
        ELSE createDefaultRoute(targetOrEthereum(options))

\* The options learnFromPayment and optimizePayment route with.
requestOptions(request) ==
    [amount |-> request.amount,
     targetChain |-> request.targetChain,
     privacyLevel |-> IF IsSome(request.privacyLevel)
                      THEN Get(request.privacyLevel) ELSE "high",
     maxGasPrice |-> None,
     preferredChains |-> None]

\* calculateRoute for the next chain, reading the history as it is now.
taskReads(task, hist) ==
    LET chain == Head(task.pending)
    IN  [task EXCEPT
            !.routes = Append(@, calculateRoute(hist, chain, task.options,
                                                chainMetrics(chain))),
            !.pending = Tail(@)]

taskResolved(task) ==
    [task EXCEPT !.phase = "resolved", !.routes = <<selectRoute(@, task.options)>>]

\* A call from its start to its first await.
taskStarted(kind, request, success, options, hist) ==
    LET task == [kind |-> kind, request |-> request, success |-> success,
                 options |-> options, phase |-> "routing",
                 pending |-> knownChains(availableChains(options)), routes |-> <<>>]
    IN  IF task.pending = <<>> THEN taskResolved(task) ELSE taskReads(task, hist)

taskRemoved(slot) == [k \in (DOMAIN tasks) \ {slot} |-> tasks[k]]

learnCalls ==
    StoredPayments(patterns, DOMAIN patterns)
    + Cardinality({k \in DOMAIN tasks : tasks[k].kind = "learnFromPayment"})

StartFindOptimalRoute(slot, options) ==
    /\ slot \notin DOMAIN tasks
    /\ tasks' = MapSet(tasks, slot,
                       taskStarted("findOptimalRoute", None, FALSE, options, routingHistory))
    /\ UNCHANGED <<routingHistory, routeLog, threatHistory, threatLog, patterns, call,
                   learnerVars, facade>>

StartLearnFromPayment(slot, request, success) ==
    /\ slot \notin DOMAIN tasks
    /\ tasks' = MapSet(tasks, slot,
                       taskStarted("learnFromPayment", Some(request), success,
                                   requestOptions(request), routingHistory))
    /\ UNCHANGED <<routingHistory, routeLog, threatHistory, threatLog, patterns, call,
                   learnerVars, facade>>

\* findOptimalRoute resumed after an await.
ResumeRouting(slot) ==
    /\ slot \in DOMAIN tasks
    /\ tasks[slot].phase = "routing"
    /\ tasks' = [tasks EXCEPT ![slot] =
                    IF @.pending = <<>> THEN taskResolved(@)
                    ELSE taskReads(@, routingHistory)]
    /\ UNCHANGED <<routingHistory, routeLog, threatHistory, threatLog, patterns, call,
                   learnerVars, facade>>

\* learnFromPayment recording the route whether or not the payment succeeded.
ResumeCallerAlwaysRecords(slot, now) ==
    /\ slot \in DOMAIN tasks
    /\ tasks[slot].phase = "resolved"
    /\ tasks[slot].kind # "optimizePayment"
    /\ LET task == tasks[slot]
           route == task.routes[1]
           record == task.kind = "learnFromPayment"
           paymentData == [pseudonym |-> Get(task.request).userPseudonym,
                           amount |-> Get(task.request).amount,
                           timestamp |-> now,
                           chain |-> route.chain,
                           commitment |-> 0]
       IN  /\ routingHistory' = IF record
                                THEN updateHistory(routingHistory, route.chain, route)
                                ELSE routingHistory
           /\ routeLog' = IF record
                          THEN MapSet(routeLog, route.chain,
                                      Append(GetOrEmpty(routeLog, route.chain), route))
                          ELSE routeLog
           /\ patterns' = IF task.kind = "learnFromPayment"
                          THEN updatePattern(patterns, paymentData)
                          ELSE patterns
    /\ tasks' = taskRemoved(slot)
    /\ UNCHANGED <<threatHistory, threatLog, call, learnerVars, facade>>

\* The caller of findOptimalRoute resumed with the route.
ResumeCaller(slot, now) ==
    /\ slot \in DOMAIN tasks
    /\ tasks[slot].phase = "resolved"
    /\ tasks[slot].kind # "optimizePayment"
    /\ LET task == tasks[slot]
           route == task.routes[1]
           record == task.kind = "learnFromPayment" /\ task.success
           paymentData == [pseudonym |-> Get(task.request).userPseudonym,
                           amount |-> Get(task.request).amount,
                           timestamp |-> now,
                           chain |-> route.chain,
                           commitment |-> 0]
       IN  /\ routingHistory' = IF record
                                THEN updateHistory(routingHistory, route.chain, route)
                                ELSE routingHistory
           /\ routeLog' = IF record
                          THEN MapSet(routeLog, route.chain,
                                      Append(GetOrEmpty(routeLog, route.chain), route))
                          ELSE routeLog
           /\ patterns' = IF task.kind = "learnFromPayment"
                          THEN updatePattern(patterns, paymentData)
                          ELSE patterns
    /\ tasks' = taskRemoved(slot)
    /\ UNCHANGED <<threatHistory, threatLog, call, learnerVars, facade>>

\* Two calls can be in flight at a time.
TaskSlots == {1, 2}

AsyncRequests ==
    [stealthAddress : {<<9>>}, amount : {1000000}, targetChain : {None},
     privacyLevel : {None}, userPseudonym : {<<1, 1>>}]

AsyncOptions ==
    [amount : {1000000}, targetChain : {None}, privacyLevel : {"medium"},
     maxGasPrice : {None}, preferredChains : {Some(<<"solana", "arbitrum">>)}]

AsyncRoutes == RouteInputs("solana") \cup {createDefaultRoute("arbitrum")}

Prefilled == Len(GetOrEmpty(routeLog, "solana")) >= RouteHistoryCapacity - 1

NextAsync ==
    \/ /\ ~Prefilled
       /\ UpdateHistory("solana", SerialRoute("solana"))
    \/ /\ Prefilled
       /\ Recorded(routeLog) < RouteHistoryCapacity - 1 + AsyncRecords
       /\ \E route \in AsyncRoutes : UpdateHistory(route.chain, route)
    \/ /\ Prefilled
       /\ \E slot \in TaskSlots : \E options \in AsyncOptions :
             StartFindOptimalRoute(slot, options)
    \/ /\ Prefilled
       /\ learnCalls < MaxLearnCalls
       /\ \E slot \in TaskSlots : \E request \in AsyncRequests : \E success \in BOOLEAN :
             StartLearnFromPayment(slot, request, success)
    \/ \E slot \in TaskSlots : ResumeRouting(slot)
    \/ \E slot \in TaskSlots : ResumeCaller(slot, 30)

SpecAsync == Init /\ [][NextAsync]_vars

\* C15: under any interleaving of asynchronous calls with updateHistory, the
\* stored history of every chain is exactly the most recent entries recorded
\* for that chain, at most 100 of them: no entry recorded for a chain is
\* lost, the capacity is never exceeded, and a chain's history changes only
\* by records for that chain.
C15_InterleavedHistories ==
    /\ DOMAIN routingHistory = DOMAIN routeLog
    /\ \A chain \in DOMAIN routeLog :
          /\ Len(routingHistory[chain]) <= RouteHistoryCapacity
          /\ Len(routingHistory[chain]) = Min(Len(routeLog[chain]), RouteHistoryCapacity)
          /\ \A i \in 1..Len(routingHistory[chain]) :
                routingHistory[chain][i] =
                    routeLog[chain][Len(routeLog[chain]) - Len(routingHistory[chain]) + i]

C15_RecordedWhileSuspended ==
    /\ Len(GetOrEmpty(routeLog, "solana")) > RouteHistoryCapacity
    /\ "arbitrum" \in DOMAIN routingHistory
    /\ \E slot \in DOMAIN tasks :
          /\ tasks[slot].kind = "learnFromPayment"
          /\ tasks[slot].phase = "routing"

clampTier(i) == Max(0, Min(3, i))

\* The threat adaptPrivacyLevel starts from: the supplied one, else the assessed.
effectiveThreat(thist, context) ==
    IF IsSome(context.threatLevel) THEN Get(context.threatLevel)
    ELSE assessThreat(thist, context)

\* C16: the final tier is the base tier moved by the transaction-category
\* step, then the amount step, then the network step, clamped to
\* [low, maximum] after each step; it is not the clamp of the summed steps.
C16_SequentialClamping ==
    call.op = "adaptPrivacyLevel" =>
        LET base == tierIndex(threatToPrivacyLevel(
                        effectiveThreat(threatHistory, call.context)))
            afterType == clampTier(base + typeAdjustment(call.context.transactionType))
            afterAmount == clampTier(afterType + amountStep(call.context.amount))
            afterNetwork == clampTier(afterAmount
                                      + networkStep(call.context.networkConditions))
        IN  tierIndex(call.res.config.level) = afterNetwork

C16_Saturated ==
    /\ call.op = "adaptPrivacyLevel"
    /\ call.context.threatLevel = Some("critical")
    /\ call.context.transactionType = "compliance"
    /\ call.context.amount = Some(500000)
    /\ ~IsSome(call.context.networkConditions)
    /\ call.res.config.level = "high"

\* C17: whenever the context supplies an amount, 0 included, the amount step
\* is applied between the category step and the network step: +1 above
\* 10,000,000, 0 above 1,000,000, -1 at or below 1,000,000.
C17_AmountStepAlways ==
    (call.op = "adaptPrivacyLevel" /\ IsSome(call.context.amount)) =>
        LET amount == Get(call.context.amount)
            bracket == IF amount > 10000000 THEN 1
                       ELSE IF amount > 1000000 THEN 0 ELSE -1
            base == tierIndex(threatToPrivacyLevel(
                        effectiveThreat(threatHistory, call.context)))
            afterType == clampTier(base + typeAdjustment(call.context.transactionType))
            afterAmount == clampTier(afterType + bracket)
        IN  tierIndex(call.res.config.level) =
                clampTier(afterAmount + networkStep(call.context.networkConditions))

(***************************************************************************)
(* SpecWindow: the privacy adapter with one identity whose threat history  *)
(* grows past the ten observations assessThreat reads, and one identity    *)
(* without history.                                                        *)
(***************************************************************************)
ExtraThreats == 1

WindowThreats == {"low", "critical"}

WindowContexts ==
    [userPseudonym : Pseudonyms,
     transactionType : TransactionTypes,
     amount : {None},
     threatLevel : {None, Some("low")},
     networkConditions : {None}]

NextWindow ==
    \/ \E threat \in WindowThreats :
          /\ Recorded(threatLog) < RecentThreats + ExtraThreats
          /\ UpdateThreatHistory(<<1, 1>>, threat)
    \/ \E context \in WindowContexts : AdaptPrivacyLevel(context)
    \/ Return

SpecWindow == Init /\ [][NextWindow]_vars

\* The level of an average threat: the mean of low = 1 .. critical = 4 with
\* cut points 1.5, 2.5 and 3.5.
averageLevel(threats) ==
    LET value(t) == CASE t = "low" -> 1 [] t = "medium" -> 2
                      [] t = "high" -> 3 [] t = "critical" -> 4
        total == SumSeq([i \in 1..Len(threats) |-> value(threats[i])])
    IN  IF 10 * total >= 35 * Len(threats) THEN "critical"
        ELSE IF 10 * total >= 25 * Len(threats) THEN "high"
        ELSE IF 10 * total >= 15 * Len(threats) THEN "medium"
        ELSE "low"

\* The threat the base tier is mapped from, as observations were recorded.
baseThreat(context) ==
    LET observed == GetOrEmpty(threatLog, bytesToHex(context.userPseudonym))
    IN  IF IsSome(context.threatLevel) THEN Get(context.threatLevel)
        ELSE IF observed = <<>> THEN "medium"
        ELSE IF context.transactionType = "compliance" THEN "high"
        ELSE IF context.transactionType = "governance" THEN "medium"
        ELSE averageLevel(LastN(observed, 10))

baseTier(threat) ==
    CASE threat = "low" -> 0
      [] threat = "medium" -> 1
      [] threat = "high" -> 2
      [] threat = "critical" -> 3

\* C18: the base tier is mapped from the threat (low -> low, medium -> medium,
\* high -> high, critical -> maximum); the threat is the supplied one, else
\* medium without history, else high for compliance, medium for governance
\* and otherwise the average of the 10 most recent observations.  The
\* returned tier is that base moved by the category, amount and network steps.
C18_BaseTier ==
    call.op = "adaptPrivacyLevel" =>
        LET afterType == clampTier(baseTier(baseThreat(call.context))
                                   + typeAdjustment(call.context.transactionType))
            afterAmount == clampTier(afterType + amountStep(call.context.amount))
        IN  tierIndex(call.res.config.level) =
                clampTier(afterAmount + networkStep(call.context.networkConditions))

C18_OldObservationDropped ==
    /\ call.op = "adaptPrivacyLevel"
    /\ ~IsSome(call.context.threatLevel)
    /\ call.context.transactionType = "payment"
    /\ LET observed == GetOrEmpty(threatLog, bytesToHex(call.context.userPseudonym))
       IN  /\ Len(observed) > 10
           /\ averageLevel(observed) # averageLevel(LastN(observed, 10))
           /\ call.res.config.level = averageLevel(LastN(observed, 10))

(***************************************************************************)
(* SpecScoring: one pseudonym learns a serial of evenly spaced payments,   *)
(* past the ten at which the stored frequency reaches 1.0, and is assessed *)
(* in both extraction modes.                                               *)
(***************************************************************************)
MaxScoringPayments == 11

scoringStored ==
    IF bytesToHex(<<1, 1>>) \in DOMAIN patterns
    THEN Len(patterns[bytesToHex(<<1, 1>>)].payments) ELSE 0

ScoringPayment ==
    [pseudonym |-> <<1, 1>>, amount |-> 1000, timestamp |-> 10 * (scoringStored + 1),
     chain |-> "ethereum", commitment |-> 0]

ScoringDirectPayments ==
    {[pseudonym |-> <<1, 1>>, amount |-> a, timestamp |-> 10 * (scoringStored + 1),
      chain |-> c, commitment |-> 0] :
        <<a, c>> \in {x \in {1000, 3000, 2000000} \X chainMetricsKeys :
                        x[2] \in QueryChains(patterns, <<1, 1>>)}}

ScoringPrivatePayments ==
    [pseudonym : {<<1, 1>>}, amount : {1000}, timestamp : {30},
     chain : {"ethereum"}, commitment : {0, 2, 4, 8}]

ScoringSensitivities == {50, 80}

NextScoring ==
    \/ /\ scoringStored < MaxScoringPayments
       /\ UpdatePattern(ScoringPayment)
    \/ \E payment \in ScoringDirectPayments : \E sensitivity \in ScoringSensitivities :
          /\ scoringStored > 0
          /\ AssessRisk(payment, [preservePrivacy |-> FALSE, sensitivity |-> sensitivity])
    \/ \E payment \in ScoringPrivatePayments : \E sensitivity \in ScoringSensitivities :
          AssessRisk(payment, [preservePrivacy |-> TRUE, sensitivity |-> sensitivity])
    \/ Return

SpecScoring == Init /\ [][NextScoring]_vars

\* The features assessRisk extracted for the call on record (the chain it
\* added is in the pattern already, so the extraction reads the same).
scoredFeatures == extractFeatures(patterns, call.payment, call.options.preservePrivacy)

\* min(1, 0.15 * anomalies + 0.2 + 0.15 + 0.1 for the three conditions), in
\* units of 1/10000 and summed as decimals.
claimedRiskScore(anomalies, features) ==
    Min(10000, 1500 * Len(anomalies)
               + (IF FracGreater(features.frequency, 9, 10) THEN 2000 ELSE 0)
               + (IF FracGreater(features.amountDeviation, 7, 10) THEN 1500 ELSE 0)
               + (IF features.timePattern = 0 THEN 1000 ELSE 0))

\* C19: the risk score of every assessRisk result is min(1, 0.15 per anomaly
\* + 0.2 if frequency > 0.9 + 0.15 if amountDeviation > 0.7 + 0.1 if
\* timePattern = 0), it lies in [0,1], and the risk level is scoreToLevel of
\* that score.
C19_RiskScoreFormula ==
    (call.op = "assessRisk" /\ call.res.kind = "ok") =>
        LET claimed == claimedRiskScore(call.res.anomalies, scoredFeatures)
        IN  /\ call.res.riskScore = claimed
            /\ call.res.riskScore \in 0..10000
            /\ call.res.riskLevel = scoreToLevel(claimed)

\* a fraction that is a number in [0,1]
inUnitInterval(f) == f.den > 0 /\ 0 <= f.num /\ f.num <= f.den

\* C20: in both extraction modes and after any sequence of updatePattern
\* calls the features fed to scoring are bounded: frequency and
\* amountDeviation in [0,1], amountCategory at most 4, timePattern at most 1
\* and chainPattern at most 7.
C20_FeaturesBounded ==
    (call.op = "assessRisk" /\ call.res.kind = "ok") =>
        /\ inUnitInterval(scoredFeatures.frequency)
        /\ inUnitInterval(scoredFeatures.amountDeviation)
        /\ scoredFeatures.amountCategory \in 0..4
        /\ scoredFeatures.timePattern \in 0..1
        /\ scoredFeatures.chainPattern \in 0..7

\* The minimum privacy score of a requested tier, in units of 1/10000.
tierMinimum(level) ==
    CASE level = "low" -> 3000
      [] level = "medium" -> 5000
      [] level = "high" -> 7000
      [] level = "maximum" -> 9000

\* The candidates, one per chain with metrics, that meet the tier's minimum
\* and the supplied ceiling.
candidatesPassing(hist, options) ==
    {r \in Elements(analyzeChains(hist, availableChains(options), options)) :
        /\ r.privacyScore >= tierMinimum(options.privacyLevel)
        /\ IsSome(options.maxGasPrice) => r.estimatedGas <= Get(options.maxGasPrice)}

\* C21: when at least one candidate passes both filters, findOptimalRoute
\* returns a candidate that passes both and whose composite score is the
\* highest among those that pass; its privacyScore is at least the tier's
\* minimum.
C21_BestPassing ==
    (call.op = "findOptimalRoute"
     /\ candidatesPassing(routingHistory, call.options) # {}) =>
        /\ call.res.route \in candidatesPassing(routingHistory, call.options)
        /\ \A r \in candidatesPassing(routingHistory, call.options) :
              routeScore(call.res.route) >= routeScore(r)
        /\ call.res.route.privacyScore >= tierMinimum(call.options.privacyLevel)

C21_FilterDecided ==
    /\ call.op = "findOptimalRoute"
    /\ \E r \in Elements(sortedRoutes(routingHistory, call.options)) :
          /\ r \notin candidatesPassing(routingHistory, call.options)
          /\ routeScore(r) > routeScore(call.res.route)
    /\ call.res.route \in candidatesPassing(routingHistory, call.options)

\* The fixed default success rate of a chain, in units of 1/300.
defaultSuccessRate(chain) ==
    CASE chain = "ethereum" -> 285
      [] chain = "polygon" -> 294
      [] chain = "bsc" -> 291
      [] chain = "arbitrum" -> 288
      [] chain = "optimism" -> 288
      [] chain = "avalanche" -> 291
      [] chain = "solana" -> 297

\* rate (in units of 1/300) is the fraction of the stored routes whose own
\* successRate exceeds 0.9
isSuccessFraction(rate, stored) ==
    rate * Len(stored) =
        300 * Cardinality({i \in 1..Len(stored) : stored[i].successRate > 270})

\* C22: the success rate of the route returned for a chain with metrics is
\* the chain's default constant while the chain's history is empty, and
\* otherwise the fraction of the chain's stored routes whose successRate
\* exceeds 0.9, whatever the amount.
C22_SuccessRate ==
    (call.op = "findOptimalRoute"
     /\ sortedRoutes(routingHistory, call.options) # <<>>) =>
        LET route == call.res.route
            stored == GetOrEmpty(routingHistory, route.chain)
        IN  /\ Len(stored) <= RouteHistoryCapacity
            /\ IF stored = <<>>
               THEN route.successRate = defaultSuccessRate(route.chain)
               ELSE isSuccessFraction(route.successRate, stored)

C22_MixedHistory ==
    /\ call.op = "findOptimalRoute"
    /\ sortedRoutes(routingHistory, call.options) # <<>>
    /\ LET stored == GetOrEmpty(routingHistory, call.res.route.chain)
       IN  /\ \E i \in 1..Len(stored) : stored[i].successRate > 270
           /\ \E i \in 1..Len(stored) : stored[i].successRate <= 270
           /\ call.res.route.successRate = 150

(***************************************************************************)
(* SpecRegular: learnFromPayments and predict over payment lists that      *)
(* differ in their spacing.                                                *)
(***************************************************************************)
MaxRegularLearnings == 3

\* A list of payments of one pseudonym at the given timestamps.
paymentsAt(timestamps, amount, chains) ==
    [i \in 1..Len(timestamps) |->
        learnerPayment(amount, timestamps[i], chains[((i - 1) % Len(chains)) + 1], TRUE)]

\* Two payments; three at equal intervals, ascending and descending; the four
\* payments of the reputation example, two days apart on three chains; three
\* large ones at one timestamp; three at unequal intervals of low and of high variance;
\* three whose variance equals the threshold.
RegularHistories ==
    {paymentsAt(<<100, 200>>, 1000, <<"ethereum">>),
     paymentsAt(<<100, 200, 300>>, 1000, <<"ethereum">>),
     paymentsAt(<<300, 200, 100>>, 1000, <<"ethereum">>),
     paymentsAt(<<10, 30, 50, 70>>, 2000000, <<"ethereum", "polygon", "arbitrum">>),
     paymentsAt(<<100, 100, 100>>, 2000000, <<"ethereum">>),
     paymentsAt(<<100, 200, 350>>, 1000, <<"ethereum">>),
     paymentsAt(<<100, 200, 1000>>, 1000, <<"ethereum", "polygon", "bsc">>),
     paymentsAt(<<0, 13, 20>>, 1000, <<"ethereum">>)}

\* The number of patterns learnFromPayments has added to the weights.
regularLearned ==
    LET count(t) == IF t \in DOMAIN weights
                    THEN FracDiv(weights[t], patternWeight(t)).num ELSE 0
    IN  count("regular") + count("high_value") + count("multi_chain")

NextRegular ==
    \/ \E payments \in RegularHistories :
          /\ regularLearned < MaxRegularLearnings
          /\ LearnFromPayments(payments)
    \/ \E paymentHistory \in RegularHistories :
          Predict(<<1, 1>>, Some(paymentHistory), 1000)
    \/ Return

SpecRegular == Init /\ [][NextRegular]_vars

\* The weight stored for the pattern type "regular", 0 when there is none.
regularWeight(w) == IF "regular" \in DOMAIN w THEN w["regular"] ELSE Num(0)

\* The variance of the consecutive intervals is below (0.3 x mean interval)^2.
varianceBelowThreshold(payments) ==
    LET n == Len(payments) - 1
        interval(i) == payments[i + 1].timestamp - payments[i].timestamp
        mean == Frac(SumSeq([i \in 1..n |-> interval(i)]), n)
        squares == [i \in 1..n |->
                       (interval(i) * mean.den - mean.num) * (interval(i) * mean.den - mean.num)]
        variance == Frac(SumSeq(squares), n * mean.den * mean.den)
        bound == FracMul(FracMul(Frac(3, 10), mean), FracMul(Frac(3, 10), mean))
    IN  FracLess(variance, bound)

\* every interval between consecutive payments is the same
evenlySpaced(payments) ==
    \A i \in 1..(Len(payments) - 2) :
        payments[i + 2].timestamp - payments[i + 1].timestamp
            = payments[i + 1].timestamp - payments[i].timestamp

\* learnFromPayments(payments) adds 0.3 to the "regular" weight when regular
\* holds and leaves that weight alone when it does not.
regularContribution(payments, regular) ==
    LearnFromPayments(payments) =>
        regularWeight(weights') =
            IF regular THEN FracAdd(regularWeight(weights), Frac(3, 10))
            ELSE regularWeight(weights)

\* C23 as stated: a list of at least 3 payments is regular exactly when the
\* variance of its intervals is below (0.3 x mean)^2, a shorter list is not
\* regular, learnFromPayments adds 0.3 to the "regular" weight exactly for a
\* regular list, and every evenly spaced list of at least 3 payments is
\* regular.
C23_EvenlySpacedRegular ==
    [][\A payments \in RegularHistories :
          /\ regularContribution(payments,
                 Len(payments) >= 3 /\ varianceBelowThreshold(payments))
          /\ (Len(payments) >= 3 /\ evenlySpaced(payments)) =>
                regularContribution(payments, TRUE)]_vars

\* C23, amended: as above, with every list of at least 3 payments evenly
\* spaced at a non-zero interval regular; payments that all carry one
\* timestamp have mean interval 0 and are not regular.
C23_SpacedApartRegular ==
    [][\A payments \in RegularHistories :
          /\ regularContribution(payments,
                 Len(payments) >= 3 /\ varianceBelowThreshold(payments))
          /\ (/\ Len(payments) >= 3
              /\ evenlySpaced(payments)
              /\ payments[2].timestamp # payments[1].timestamp) =>
                regularContribution(payments, TRUE)
          /\ (/\ Len(payments) >= 3
              /\ evenlySpaced(payments)
              /\ payments[2].timestamp = payments[1].timestamp) =>
                regularContribution(payments, FALSE)]_vars

C23_RegularLearned ==
    /\ regularWeight(weights) = Frac(3, 10)
    /\ DOMAIN weights = {"regular"}

(***************************************************************************)
(* X402AIBridge.  Its router, fraud detector and privacy adapter are the   *)
(* variables routingHistory, patterns and threatHistory.  optimizePayment  *)
(* awaits findOptimalRoute as learnFromPayment does; resumed with the      *)
(* route it assesses the payment and adapts the privacy level, and neither *)
(* of those two calls reads or writes a store in the mode it is made in.   *)
(***************************************************************************)
\* fraudToThreat reporting every risk level as a critical threat.
fraudToThreatCritical(riskLevel) == "critical"

\* mapping[riskLevel] || 'medium'
fraudToThreat(riskLevel) ==
    IF riskLevel \in {"low", "medium", "high", "critical"} THEN riskLevel ELSE "medium"

\* Math.ceil(a / b) for positive integers
CeilDiv(a, b) == (a + b - 1) \div b

\* calculateCost charging the gas alone.
calculateCostGasOnly(route, privacy) == route.estimatedGas

calculateCost(route, privacy) == route.estimatedGas * CeilDiv(privacy.proofSize, 1024)

\* optimizePayment with a commitment that depends on the amount.
optimizePaymentCommitted(route, request, pats, thist, now) ==
    LET paymentData == [pseudonym |-> request.userPseudonym,
                        amount |-> request.amount,
                        timestamp |-> now,
                        chain |-> route.chain,
                        commitment |-> IF request.amount > 1000000 THEN 8 ELSE 0]
        fraudAssessment == assessRisk(pats, paymentData,
                                      [preservePrivacy |-> TRUE, sensitivity |-> 50])
        privacyContext == [userPseudonym |-> request.userPseudonym,
                           transactionType |-> "payment",
                           amount |-> Some(request.amount),
                           threatLevel |-> Some(fraudToThreat(fraudAssessment.riskLevel)),
                           networkConditions |-> None]
        privacyConfig == adaptPrivacyLevel(thist, privacyContext)
    IN  [route |-> route,
         privacyConfig |-> privacyConfig,
         fraudAssessment |-> fraudAssessment,
         recommendedChain |-> route.chain,
         estimatedCost |-> calculateCost(route, privacyConfig)]

\* optimizePayment from the route findOptimalRoute resolved to.
optimizePayment(route, request, pats, thist, now) ==
    LET paymentData == [pseudonym |-> request.userPseudonym,
                        amount |-> request.amount,
                        timestamp |-> now,
                        chain |-> route.chain,
                        commitment |-> 0]
        fraudAssessment == assessRisk(pats, paymentData,
                                      [preservePrivacy |-> TRUE, sensitivity |-> 50])
        privacyContext == [userPseudonym |-> request.userPseudonym,
                           transactionType |-> "payment",
                           amount |-> Some(request.amount),
                           threatLevel |-> Some(fraudToThreat(fraudAssessment.riskLevel)),
                           networkConditions |-> None]
        privacyConfig == adaptPrivacyLevel(thist, privacyContext)
    IN  [route |-> route,
         privacyConfig |-> privacyConfig,
         fraudAssessment |-> fraudAssessment,
         recommendedChain |-> route.chain,
         estimatedCost |-> calculateCost(route, privacyConfig)]

StartOptimizePayment(slot, request) ==
    /\ slot \notin DOMAIN tasks
    /\ tasks' = MapSet(tasks, slot,
                       taskStarted("optimizePayment", Some(request), FALSE,
                                   requestOptions(request), routingHistory))
    /\ UNCHANGED <<routingHistory, routeLog, threatHistory, threatLog, patterns, call,
                   learnerVars, facade>>

\* optimizePayment resumed with the route, through to its result.
ResumeOptimizePayment(slot, now) ==
    /\ call = Idle
    /\ slot \in DOMAIN tasks
    /\ tasks[slot].phase = "resolved"
    /\ tasks[slot].kind = "optimizePayment"
    /\ call' = [op |-> "optimizePayment", request |-> Get(tasks[slot].request),
                res |-> optimizePayment(tasks[slot].routes[1], Get(tasks[slot].request),
                                        patterns, threatHistory, now)]
    /\ tasks' = taskRemoved(slot)
    /\ UNCHANGED <<routingHistory, routeLog, threatHistory, threatLog, patterns,
                   learnerVars, facade>>

(***************************************************************************)
(* SpecBridge: optimizePayment and learnFromPayment calls of one bridge,   *)
(* interleaved at their awaits.                                            *)
(***************************************************************************)
MaxBridgeLearnings == 2

bridgeRequest(amount, targetChain, privacyLevel, userPseudonym) ==
    [stealthAddress |-> <<9>>, amount |-> amount, targetChain |-> targetChain,
     privacyLevel |-> privacyLevel, userPseudonym |-> userPseudonym]

BridgeRequests ==
    {bridgeRequest(1000000, None, None, <<1, 1>>),
     bridgeRequest(20000000, Some("polygon"), Some("maximum"), <<171, 205>>)}

bridgeLearnings ==
    StoredPayments(patterns, DOMAIN patterns)
    + Cardinality({k \in DOMAIN tasks : tasks[k].kind = "learnFromPayment"})

NextBridge ==
    \/ \E slot \in TaskSlots : \E request \in BridgeRequests : \E success \in BOOLEAN :
          /\ bridgeLearnings < MaxBridgeLearnings
          /\ StartLearnFromPayment(slot, request, success)
    \/ \E slot \in TaskSlots : \E request \in BridgeRequests :
          StartOptimizePayment(slot, request)
    \/ \E slot \in TaskSlots : ResumeRouting(slot)
    \/ \E slot \in TaskSlots : ResumeCaller(slot, 30)
    \/ \E slot \in TaskSlots : ResumeOptimizePayment(slot, 30)
    \/ Return

SpecBridge == Init /\ [][NextBridge]_vars

\* the proof-size multiple of a tier
tierMultiple(level) ==
    CASE level = "low" -> 1
      [] level = "medium" -> 2
      [] level = "high" -> 4
      [] level = "maximum" -> 8

\* C24: optimizePayment returns estimatedCost = route.estimatedGas x
\* ceil(privacyConfig.proofSize / 1024) for the route and configuration of
\* the same result, which is the gas times 1, 2, 4 or 8 for the tiers low,
\* medium, high, maximum, and recommendedChain = route.chain.
C24_EstimatedCost ==
    call.op = "optimizePayment" =>
        LET res == call.res
        IN  /\ res.estimatedCost * 1024 >= res.route.estimatedGas * res.privacyConfig.proofSize
            /\ (res.estimatedCost - res.route.estimatedGas) * 1024
                  < res.route.estimatedGas * res.privacyConfig.proofSize
            /\ res.estimatedCost = res.route.estimatedGas * tierMultiple(res.privacyConfig.level)
            /\ res.recommendedChain = res.route.chain

C24_DoubledCost ==
    /\ call.op = "optimizePayment"
    /\ call.res.privacyConfig.level = "medium"
    /\ call.res.estimatedCost = 2 * call.res.route.estimatedGas

\* C25: assessRisk never reports the anomaly "unusual_amount_category", in
\* either mode and at any sensitivity: the amount category it extracts is at
\* most 4.
C25_NoUnusualAmountCategory ==
    (call.op = "assessRisk" /\ call.res.kind = "ok") =>
        /\ "unusual_amount_category" \notin Elements(call.res.anomalies)
        /\ scoredFeatures.amountCategory <= 4

C25_TopCategory ==
    /\ call.op = "assessRisk"
    /\ call.res.kind = "ok"
    /\ call.options.sensitivity > 30
    /\ scoredFeatures.amountCategory = 4
    /\ ~call.options.preservePrivacy
    /\ call.payment.amount >= 1000000

\* C26: in a bridge driven by learnFromPayment calls alone, every stored
\* route has successRate > 0.9, so the success rate of a chain with history
\* is exactly 1; and a learnFromPayment call with success = false completes
\* without changing the routing history.
C26_FailuresNeverCount ==
    /\ [](\A chain \in DOMAIN routingHistory :
             /\ \A i \in 1..Len(routingHistory[chain]) :
                   routingHistory[chain][i].successRate > 270
             /\ routingHistory[chain] # <<>> =>
                   getSuccessRate(routingHistory, chain, 0) = 300)
    /\ [][\A slot \in DOMAIN tasks :
             (/\ slot \notin DOMAIN tasks'
              /\ tasks[slot].kind = "learnFromPayment"
              /\ ~tasks[slot].success) =>
                 routingHistory' = routingHistory]_vars

C26_FailureAfterSuccess ==
    /\ Recorded(routeLog) = 1
    /\ StoredPayments(patterns, DOMAIN patterns) = 2
    /\ \E chain \in DOMAIN routingHistory :
          /\ routingHistory[chain] # <<>>
          /\ getSuccessRate(routingHistory, chain, 0) = 300

\* The commitments whose hash bytes are tabulated, as payments of a request.
committedPayments(request) ==
    {[pseudonym |-> request.userPseudonym, amount |-> request.amount, timestamp |-> 30,
      chain |-> "ethereum", commitment |-> fill] : fill \in {0, 2, 4, 7, 8, 10, 124}}

\* The tier adaptPrivacyLevel gives a payment request at a risk level.
tierAtRisk(request, riskLevel) ==
    adaptPrivacyLevel(threatHistory,
                      [userPseudonym |-> request.userPseudonym,
                       transactionType |-> "payment",
                       amount |-> Some(request.amount),
                       threatLevel |-> Some(fraudToThreat(riskLevel)),
                       networkConditions |-> None]).level

\* C27: after any learnFromPayment calls, optimizePayment returns a
\* fraudAssessment with riskLevel low or medium and riskScore at most 0.45,
\* and a privacyConfig whose level is not maximum; the same holds of the
\* privacy-preserving assessment at sensitivity 0.5 of every commitment.
C27_NeverMaximum ==
    call.op = "optimizePayment" =>
        /\ call.res.fraudAssessment.riskLevel \in {"low", "medium"}
        /\ call.res.fraudAssessment.riskScore <= 4500
        /\ call.res.privacyConfig.level # "maximum"
        /\ \A payment \in committedPayments(call.request) :
              LET assessed == assessRisk(patterns, payment,
                                         [preservePrivacy |-> TRUE, sensitivity |-> 50])
              IN  /\ assessed.riskLevel \in {"low", "medium"}
                  /\ assessed.riskScore <= 4500
                  /\ tierAtRisk(call.request, assessed.riskLevel) # "maximum"

C27_LargeAfterLearning ==
    /\ call.op = "optimizePayment"
    /\ call.request.amount > 10000000
    /\ bytesToHex(call.request.userPseudonym) \in DOMAIN patterns
    /\ call.res.privacyConfig.level = "medium"
    /\ \E payment \in committedPayments(call.request) :
          assessRisk(patterns, payment,
                     [preservePrivacy |-> TRUE, sensitivity |-> 50]).riskScore = 4500

\* The assessment of an all-zero commitment at sensitivity 0.5: risk 0.1 for
\* the time pattern, no anomaly, confidence 0.5 + 0.2.
zeroCommitmentAssessment ==
    [kind |-> "ok", riskScore |-> 1000, riskLevel |-> "low", anomalies |-> <<>>,
     confidence |-> 7000]

\* C28: the fraudAssessment optimizePayment returns is the same for every
\* request (pseudonym, amount, stealthAddress, targetChain, privacyLevel) and
\* after any learnFromPayment calls: the one of the all-zero commitment.
C28_AssessmentConstant ==
    call.op = "optimizePayment" => call.res.fraudAssessment = zeroCommitmentAssessment

C28_KnownPseudonym ==
    /\ call.op = "optimizePayment"
    /\ call.request.userPseudonym = <<171, 205>>
    /\ bytesToHex(<<171, 205>>) \in DOMAIN patterns
    /\ bytesToHex(<<1, 1>>) \in DOMAIN patterns
    /\ routingHistory # EmptyMap
    /\ call.res.fraudAssessment = zeroCommitmentAssessment

\* The values targetChain takes: absent, a chain with metrics, one without.
TargetChains == {None, Some("polygon"), Some("bsc"), Some("unknown")}

\* C29: targetChain does not influence route selection: when at least one
\* candidate chain has metrics, findOptimalRoute returns the same route for
\* options that differ in targetChain only, so the returned chain can differ
\* from targetChain; without a candidate the result is the default route on
\* targetChain, or on "ethereum" when it is absent.
C29_TargetChainIgnored ==
    call.op = "findOptimalRoute" =>
        IF knownChains(availableChains(call.options)) # <<>>
        THEN \A target \in TargetChains :
                findOptimalRoute(routingHistory,
                                 [call.options EXCEPT !.targetChain = target])
                    = call.res.route
        ELSE \A target \in TargetChains :
                findOptimalRoute(routingHistory,
                                 [call.options EXCEPT !.targetChain = target])
                    = createDefaultRoute(IF IsSome(target) THEN Get(target) ELSE "ethereum")

C29_OffTarget ==
    /\ call.op = "findOptimalRoute"
    /\ IsSome(call.options.targetChain)
    /\ Get(call.options.targetChain) \in
          Elements(knownChains(availableChains(call.options)))
    /\ call.res.route.chain # Get(call.options.targetChain)

(***************************************************************************)
(* ShadowOSIntelligence.  The facade constructs its own router, learner,   *)
(* privacy adapter and fraud detector and, apart from them, an             *)
(* X402AIBridge that constructs its own three.  Here routingHistory,       *)
(* patterns and threatHistory are the stores inside the bridge, weights    *)
(* and isTrained belong to the facade's learner and facade.patterns to the *)
(* facade's own fraud detector; its own router and privacy adapter are     *)
(* written by none of its methods.  optimizePayment is the bridge's.       *)
(* learnFromPayments awaits the learner when reputation learning is        *)
(* enabled and then updates the fraud patterns.                            *)
(***************************************************************************)
\* The PaymentData learnFromPayments builds from a PaymentPattern.
facadePaymentData(payment) ==
    [pseudonym |-> payment.pseudonym, amount |-> payment.amount,
     timestamp |-> payment.timestamp, chain |-> payment.chain, commitment |-> 0]

\* for (const payment of payments) this.fraudDetector.updatePattern(...)
RECURSIVE updatePatterns(_, _)
updatePatterns(pats, payments) ==
    IF payments = <<>> THEN pats
    ELSE updatePatterns(updatePattern(pats, facadePaymentData(Head(payments))),
                        Tail(payments))

\* The facade's fraud patterns after the loop of learnFromPayments.
facadePatternsLearned(payments) ==
    IF facade.config.enableFraudDetection
    THEN updatePatterns(facade.patterns, payments) ELSE facade.patterns

\* learnFromPayments up to its await, or to its end when it awaits nothing.
StartLearnFromPayments(slot, payments) ==
    /\ slot \notin DOMAIN tasks
    /\ IF facade.config.enableReputationLearning
       THEN /\ weights' = modelUpdate(weights, identifyPatterns(payments))
            /\ isTrained' = trainedAfterLearning(isTrained)
            /\ tasks' = MapSet(tasks, slot,
                               [kind |-> "learnFromPayments", payments |-> payments,
                                phase |-> "learning"])
            /\ UNCHANGED facade
       ELSE /\ facade' = [facade EXCEPT !.patterns = facadePatternsLearned(payments)]
            /\ UNCHANGED <<weights, isTrained, tasks>>
    /\ UNCHANGED <<routingHistory, routeLog, threatHistory, threatLog, patterns, call,
                   trainingData>>

\* learnFromPayments with the bridge's fraud detector in place of its own.
ResumeLearnFromPaymentsShared(slot) ==
    /\ slot \in DOMAIN tasks
    /\ tasks[slot].phase = "learning"
    /\ patterns' = IF facade.config.enableFraudDetection
                   THEN updatePatterns(patterns, tasks[slot].payments) ELSE patterns
    /\ tasks' = taskRemoved(slot)
    /\ UNCHANGED <<routingHistory, routeLog, threatHistory, threatLog, facade, call,
                   learnerVars>>

\* learnFromPayments resumed after the learner: the loop over the payments.
ResumeLearnFromPayments(slot) ==
    /\ slot \in DOMAIN tasks
    /\ tasks[slot].phase = "learning"
    /\ facade' = [facade EXCEPT !.patterns = facadePatternsLearned(tasks[slot].payments)]
    /\ tasks' = taskRemoved(slot)
    /\ UNCHANGED <<routingHistory, routeLog, threatHistory, threatLog, patterns, call,
                   learnerVars>>

\* assessFraud: the facade's own detector, or the fixed answer when disabled.
AssessFraud(payment) ==
    /\ call = Idle
    /\ call' = [op |-> "assessFraud", payment |-> payment,
                res |-> IF facade.config.enableFraudDetection
                        THEN assessRisk(facade.patterns, payment,
                                        [preservePrivacy |-> TRUE, sensitivity |-> 50])
                        ELSE [kind |-> "ok", riskScore |-> 5000, riskLevel |-> "medium",
                              anomalies |-> <<>>, confidence |-> 5000]]
    /\ UNCHANGED <<routingHistory, routeLog, threatHistory, threatLog, patterns,
                   learnerVars, tasks, facade>>

(***************************************************************************)
(* SpecFacade: a facade of any configuration of its learning and fraud     *)
(* switches, taught a few payment lists between optimizePayment calls.     *)
(***************************************************************************)
MaxFacadePayments == 2

FacadeConfigs ==
    {[DefaultConfig EXCEPT !.enableReputationLearning = l, !.enableFraudDetection = f] :
        l \in BOOLEAN, f \in BOOLEAN}

InitFacade ==
    /\ routingHistory = EmptyMap
    /\ routeLog = EmptyMap
    /\ threatHistory = EmptyMap
    /\ threatLog = EmptyMap
    /\ patterns = EmptyMap
    /\ call = Idle
    /\ weights = EmptyMap
    /\ trainingData = <<>>
    /\ isTrained = FALSE
    /\ tasks = EmptyMap
    /\ facade \in [config : FacadeConfigs, patterns : {EmptyMap}]

NextFacade ==
    \/ \E slot \in TaskSlots : \E payments \in LearnerHistories :
          /\ StoredPayments(facade.patterns, DOMAIN facade.patterns) < MaxFacadePayments
          /\ patternsLearned < MaxLearnings
          /\ StartLearnFromPayments(slot, payments)
    \/ \E slot \in TaskSlots : ResumeLearnFromPayments(slot)
    \/ \E slot \in TaskSlots : \E request \in BridgeRequests :
          StartOptimizePayment(slot, request)
    \/ \E slot \in TaskSlots : ResumeRouting(slot)
    \/ \E slot \in TaskSlots : ResumeOptimizePayment(slot, 30)
    \/ \E payment \in PrivatePayments : AssessFraud(payment)
    \/ Return

SpecFacade == InitFacade /\ [][NextFacade]_vars

\* What optimizePayment returns for a request on a bridge as constructed.
freshOptimizePayment(request) ==
    optimizePayment(findOptimalRoute(EmptyMap, requestOptions(request)), request,
                    EmptyMap, EmptyMap, 30)

\* C30: ShadowOSIntelligence.learnFromPayments never changes the result of a
\* later optimizePayment: the stores inside the facade's bridge stay as
\* constructed, so every optimizePayment result is the one a request gets
\* before any learnFromPayments call.
C30_LearningLeavesOptimizeAlone ==
    /\ routingHistory = EmptyMap
    /\ patterns = EmptyMap
    /\ threatHistory = EmptyMap
    /\ call.op = "optimizePayment" => call.res = freshOptimizePayment(call.request)

C30_OptimizedAfterLearning ==
    /\ call.op = "optimizePayment"
    /\ facade.patterns # EmptyMap
    /\ weights # EmptyMap
    /\ call.res = freshOptimizePayment(call.request)

====
